---- MODULE Spec2Model ----
(***************************************************************************)
(* Posting engine of the PhonePe statement importer                        *)
(* (src/phonepe_expense_update.py): self-account resolution, duplicate     *)
(* detection, transfer posting and the fallback expense write, run over a  *)
(* list of parsed records against a PostgreSQL connection.                 *)
(*                                                                         *)
(* Text that the code lower-cases, strips or matches with LIKE is a        *)
(* sequence of one-character strings; opaque identifiers are strings.      *)
(* Amounts are integers: a parsed amount counts units of 10^-5, a stored   *)
(* amount (scale 4) counts units of 10^-4.                                 *)
(***************************************************************************)
EXTENDS Integers, Sequences, FiniteSets, TLC

\* ------------------------------------------------------------------ bounds
\* Longest list of records taken from CoreRecords (longer lists only there).
MaxRecords == 2
\* Number of times insert_transactions is run over the same list.
MaxRuns == 2
\* Number of store statements that may fail in one behaviour.
MaxFaults == 1

\* ------------------------------------------------------------- text helpers
\* SQL NULL / Python None for the opaque identifiers.
NULL == "NULL"

\* The no-break space U+00A0, as one character.
NBSP == "NBSP"

\* The line feed that joins the lines of a text, as one character.
NL == "NL"

\* The characters str.strip() removes and \s matches.
Whitespace == {" ", NBSP, NL}

UpperChars == <<"A","B","C","D","E","F","G","H","I","J","K","L","M",
                "N","O","P","Q","R","S","T","U","V","W","X","Y","Z">>

LowerChars == <<"a","b","c","d","e","f","g","h","i","j","k","l","m",
                "n","o","p","q","r","s","t","u","v","w","x","y","z">>

\* The characters of the model's texts.
Chars ==
    {UpperChars[i] : i \in 1..Len(UpperChars)} \cup
    {LowerChars[i] : i \in 1..Len(LowerChars)} \cup {" ", "_", "%", "&"} \cup
    {"0", "1", "2", "3", "4", "5", "6", "7", "8", "9"} \cup
    {",", "-", "/", ":", ".", NBSP, NL}

\* str.lower() / SQL lower() on one character.
LowerChar ==
    [c \in Chars |->
        IF \E i \in 1..Len(UpperChars) : UpperChars[i] = c
        THEN LowerChars[CHOOSE i \in 1..Len(UpperChars) : UpperChars[i] = c]
        ELSE c]

Lower(s) == [i \in 1..Len(s) |-> LowerChar[s[i]]]

\* The member of a one-member set.  In The({e : x \in {v}}) the value v is
\* computed once and e reads it as x.
The(S) == CHOOSE x \in S : TRUE

RECURSIVE LStrip(_)
LStrip(s) == IF s # <<>> /\ Head(s) \in Whitespace THEN LStrip(Tail(s)) ELSE s

RECURSIVE RStrip(_)
RStrip(s) ==
    IF s # <<>> /\ s[Len(s)] \in Whitespace
    THEN RStrip(SubSeq(s, 1, Len(s) - 1)) ELSE s

\* str.strip()
Strip(s) == The({LStrip(t) : t \in {The({RStrip(u) : u \in {s}})}})

\* s contains sub as a contiguous substring.
Contains(s, sub) ==
    \E i \in 0..(Len(s) - Len(sub)) : SubSeq(s, i + 1, i + Len(sub)) = sub

\* SQL  s LIKE p : '%' matches any run of characters, '_' any one character,
\* every other character matches itself.
RECURSIVE Like(_, _)
Like(s, p) ==
    IF p = <<>> THEN s = <<>>
    ELSE IF Head(p) = "%"
         THEN \E k \in 0..Len(s) : Like(SubSeq(s, k + 1, Len(s)), Tail(p))
         ELSE /\ s # <<>>
              /\ (Head(p) = "_" \/ Head(p) = Head(s))
              /\ Like(Tail(s), Tail(p))

\* SQL equality: NULL equals nothing.
SqlEq(a, b) == a # NULL /\ b # NULL /\ a = b

\* Python truthiness of an optional identifier.
Truthy(x) == x # NULL /\ x # ""

\* ------------------------------------------------------------------ amounts
\* Decimal.quantize(Decimal("0.0001"), rounding=ROUND_HALF_UP) of a value
\* counted in units of 10^-5: the nearest multiple of 10^-4, ties away from 0.
QuantizeHalfUp(units5) ==
    IF units5 >= 0 THEN (units5 + 5) \div 10 ELSE -((5 - units5) \div 10)

\* A record's amount text: absent (None or blank), text holding no number,
\* or a decimal number counted in units of 10^-5.
NoAmount == [kind |-> "none", units5 |-> 0]

BadAmount == [kind |-> "bad", units5 |-> 0]

Num(units5) == [kind |-> "num", units5 |-> units5]

\* safe_decimal: None for absent or unparseable text, else the value at scale 4.
safe_decimal(s) ==
    IF s.kind = "num"
    THEN [ok |-> TRUE, val |-> QuantizeHalfUp(s.units5)]
    ELSE [ok |-> FALSE, val |-> 0]

Abs(n) == IF n < 0 THEN -n ELSE n

\* ----------------------------------------------------------------- accounts
DEFAULT_SELF_ACCOUNT_ID == "acc-default"

\* The accounts table (read only): id, name, and in locked_attributes the
\* account_name matched against payees and the account_number matched
\* against paid_by.
Accounts ==
    << [id |-> "acc-default", name |-> <<"W","a","l","l","e","t">>,
        account_name |-> <<"W","a","l","l","e","t">>, account_number |-> "XX00"],
       [id |-> "acc-hdfc", name |-> <<"H","D","F","C">>,
        account_name |-> <<"H","d","f","c">>, account_number |-> "XX12"],
       [id |-> "acc-sbi", name |-> <<"S","B","I">>,
        account_name |-> <<"S","b","i">>, account_number |-> "XX34"] >>

\* ------------------------------------------------------------ store, connection
\* Tables are sequences; a row's id is its position.  A connection value is
\* [db: the committed tables, tx: the tables as this connection sees them
\* (committed rows plus its own uncommitted ones), failed: the connection's
\* transaction is aborted and every statement raises until a rollback].
\* A rollback that clears the error state but keeps the uncommitted rows.
rollback_keeps_writes(c) == [c EXCEPT !.failed = FALSE]

\* conn.rollback()
rollback(c) == [c EXCEPT !.tx = c.db, !.failed = FALSE]

\* conn.commit() / COMMIT
commit(c) == [c EXCEPT !.db = c.tx]

\* A statement raises when a fault is injected or the transaction is aborted.
Raises(c, fault) == c.failed \/ fault

\* An exception left unhandled at the SQL level aborts the transaction.
Abort(c) == [c EXCEPT !.failed = TRUE]

InsertTransaction(c, row) ==
    [c EXCEPT !.tx.transactions = Append(@, row)]

\* An entry write that replaces the first row of entries.
InsertEntry_overwrite(c, row) ==
    [c EXCEPT !.tx.entries = <<row>> \o Tail(@)]

InsertEntry(c, row) ==
    [c EXCEPT !.tx.entries = Append(@, row)]

InsertTransferRow(c, row) ==
    [c EXCEPT !.tx.transfers = Append(@, row)]

\* ------------------------------------------------------------------ lookups
\* lookup_self_account_from_paid_by: the (id, name) of the first account whose
\* account_number equals paid_by; None (found = FALSE) when paid_by is empty,
\* no account matches, or the query raises (the exception is logged and the
\* transaction is left aborted).
lookup_self_account_from_paid_by(c, paid_by, fault) ==
    IF ~Truthy(paid_by)
    THEN [found |-> FALSE, id |-> NULL, name |-> <<>>, conn |-> c]
    ELSE IF Raises(c, fault)
    THEN [found |-> FALSE, id |-> NULL, name |-> <<>>, conn |-> Abort(c)]
    ELSE LET hits == {i \in 1..Len(Accounts) : Accounts[i].account_number = paid_by}
         IN  IF hits = {}
             THEN [found |-> FALSE, id |-> NULL, name |-> <<>>, conn |-> c]
             ELSE LET i == CHOOSE i \in hits : \A j \in hits : i <= j
                  IN  [found |-> TRUE, id |-> Accounts[i].id,
                       name |-> Accounts[i].name, conn |-> c]

\* The pattern lookup_account_by_name hands to LIKE: the payee, stripped and
\* lower-cased, with no wildcard added around it.
NamePattern(name) == Lower(Strip(name))

\* lookup_account_by_name: the rows (positions in Accounts) the query
\*   WHERE lower(account_name) LIKE pattern LIMIT 1
\* may return its one row from; none when the name is empty or the query
\* raises (logged, transaction left aborted).
lookup_account_by_name(c, name, fault) ==
    IF name = <<>>
    THEN [rows |-> {}, conn |-> c]
    ELSE IF Raises(c, fault)
    THEN [rows |-> {}, conn |-> Abort(c)]
    ELSE [rows |-> {i \in 1..Len(Accounts) :
                      Like(Lower(Accounts[i].account_name), NamePattern(name))},
          conn |-> c]

\* q_by_both of txn_exists.
q_by_both(t, account_id, txn_id, utr_no) ==
    \E i \in 1..Len(t.entries) :
        /\ t.entries[i].account_id = account_id
        /\ SqlEq(t.entries[i].source, txn_id)
        /\ SqlEq(t.entries[i].external_id, utr_no)

\* A secondary key that looks at the source only.
q_by_any_source_only(t, txn_id, utr_no) ==
    \E i \in 1..Len(t.entries) : SqlEq(t.entries[i].source, txn_id)

\* q_by_any of txn_exists.
q_by_any(t, txn_id, utr_no) ==
    \E i \in 1..Len(t.entries) :
        \/ SqlEq(t.entries[i].source, txn_id)
        \/ SqlEq(t.entries[i].external_id, utr_no)

\* A duplicate check that never finds the record.
txn_exists_blind(c, txn_id, utr_no, account_id, fault) ==
    [exists |-> FALSE, conn |-> IF Raises(c, fault) THEN rollback(c) ELSE c]

\* A duplicate check that answers False when its query raises and leaves the
\* transaction aborted.
txn_exists_no_rollback(c, txn_id, utr_no, account_id, fault) ==
    IF Raises(c, fault)
    THEN [exists |-> FALSE, conn |-> Abort(c)]
    ELSE IF Truthy(account_id) /\ Truthy(txn_id) /\ Truthy(utr_no)
    THEN [exists |-> q_by_both(c.tx, account_id, txn_id, utr_no), conn |-> c]
    ELSE [exists |-> q_by_any(c.tx, txn_id, utr_no), conn |-> c]

\* txn_exists: the existence query; when it raises, roll back and answer False.
txn_exists(c, txn_id, utr_no, account_id, fault) ==
    IF Raises(c, fault)
    THEN [exists |-> FALSE, conn |-> rollback(c)]
    ELSE IF Truthy(account_id) /\ Truthy(txn_id) /\ Truthy(utr_no)
    THEN [exists |-> q_by_both(c.tx, account_id, txn_id, utr_no), conn |-> c]
    ELSE [exists |-> q_by_any(c.tx, txn_id, utr_no), conn |-> c]

\* --------------------------------------------------------- perform_transfer
TextDebit == <<"D","e","b","i","t">>

TextCredit == <<"c","r","e","d","i","t">>

TransferTo == <<"T","r","a","n","s","f","e","r"," ","t","o"," ">>

TransferFrom == <<"T","r","a","n","s","f","e","r"," ","f","r","o","m"," ">>

\* A direction that reads a missing type as a credit.
TxnType_or_credit(txn) == Lower(Strip(IF txn.type = <<>> THEN TextCredit ELSE txn.type))

\* type = (txn.get("type") or "Debit").strip().lower()
TxnType(txn) == Lower(Strip(IF txn.type = <<>> THEN TextDebit ELSE txn.type))

\* A direction test that never sees a credit.
IsCredit_never(txn) == FALSE

IsCredit(txn) == TxnType(txn) = TextCredit

\* The amount written on the outflow entry.
out_amount(amt, credit) == IF credit THEN -amt ELSE amt

\* An inflow amount that is not negated for a debit.
in_amount_unsigned(amt, credit) == amt

\* The amount written on the inflow entry.
in_amount(amt, credit) == IF credit THEN amt ELSE -amt

\* source_out = txn.get("transaction_id") or f"PHONEPE-{created_at}"
source_out(txn) ==
    IF Truthy(txn.transaction_id) THEN txn.transaction_id
    ELSE "PHONEPE-" \o txn.created_at

source_in(txn) == source_out(txn) \o "_IN"

\* An idempotency lookup that finds no row.
LinkedTransfers_none(t, src) == {}

\* Rows of transfers whose outflow transaction carries an entry with the source.
LinkedTransfers(t, src) ==
    {k \in 1..Len(t.transfers) :
        \E i \in 1..Len(t.entries) :
            /\ SqlEq(t.entries[i].source, src)
            /\ t.entries[i].entryable_id = t.transfers[k].outflow_transaction_id}

\* A result whose status for an already linked transfer is none of the four.
TransferResult_found(status, out_id, in_id, c) ==
    [status |-> IF status = "exists" THEN "found" ELSE status,
     out_id |-> out_id, in_id |-> in_id, conn |-> c]

TransferResult(status, out_id, in_id, c) ==
    [status |-> status, out_id |-> out_id, in_id |-> in_id, conn |-> c]

\* Statements of perform_transfer's try block, in order; `fault` names the one
\* that raises (0: none).
StmtSelect == 1
StmtBegin == 2
StmtOutTxn == 3
StmtOutEntry == 4
StmtInTxn == 5
StmtInEntry == 6
StmtTransfer == 7
StmtCommit == 8

\* perform_transfer.  `pick` is the row the account lookup's fetchone returned
\* (a position in Accounts, among the rows the query matches), lk_fault makes
\* that lookup raise, fault is the statement of the try block that raises.
perform_transfer(c, txn, self_account, pick, lk_fault, fault) ==
    LET name    == Strip(txn.name)
        credit  == IsCredit(txn)
        lk      == lookup_account_by_name(c, name, lk_fault)
        c0      == lk.conn
        amt     == safe_decimal(txn.amount)
        matched == Accounts[pick]
        self_id == IF Truthy(self_account.id) THEN self_account.id
                   ELSE DEFAULT_SELF_ACCOUNT_ID
        to_account   == IF credit THEN self_id ELSE matched.id
        to_name      == IF credit THEN self_account.name ELSE matched.account_name
        from_account == IF credit THEN matched.id ELSE self_id
        from_name    == IF credit THEN matched.account_name ELSE self_account.name
        src_out == source_out(txn)
        src_in  == source_in(txn)
        linked  == LinkedTransfers(c0.tx, src_out)
        out_txn_id == Len(c0.tx.transactions) + 1
        in_txn_id  == Len(c0.tx.transactions) + 2
        c1 == InsertTransaction(c0,
                [kind |-> "funds_movement", category_id |-> NULL,
                 external_id |-> src_out, created_at |-> txn.created_at])
        c2 == InsertEntry(c1,
                [account_id |-> from_account, entryable_id |-> out_txn_id,
                 amount |-> out_amount(amt.val, credit), date |-> txn.date,
                 name |-> TransferTo \o to_name,
                 external_id |-> txn.utr_no, source |-> src_out])
        c3 == InsertTransaction(c2,
                [kind |-> "funds_movement", category_id |-> NULL,
                 external_id |-> src_in, created_at |-> txn.created_at])
        c4 == InsertEntry(c3,
                [account_id |-> to_account, entryable_id |-> in_txn_id,
                 amount |-> in_amount(amt.val, credit), date |-> txn.date,
                 name |-> TransferFrom \o from_name,
                 external_id |-> txn.utr_no, source |-> src_in])
        c5 == InsertTransferRow(c4,
                [outflow_transaction_id |-> out_txn_id,
                 inflow_transaction_id |-> in_txn_id, status |-> "confirmed"])
        \* the connection as the failing statement finds it
        reached == CASE fault <= StmtOutTxn   -> c0
                     [] fault = StmtOutEntry  -> c1
                     [] fault = StmtInTxn     -> c2
                     [] fault = StmtInEntry   -> c3
                     [] fault = StmtTransfer  -> c4
                     [] OTHER                 -> c5
    IN  IF lk.rows = {} \/ pick \notin lk.rows
        THEN TransferResult("skip", 0, 0, c0)
        ELSE IF ~amt.ok
        THEN TransferResult("skip", 0, 0, c0)
        ELSE IF Raises(c0, fault = StmtSelect)
        THEN TransferResult("error", 0, 0, rollback(c0))
        ELSE IF linked # {}
        THEN LET k == CHOOSE k \in linked : \A j \in linked : k <= j
             IN  IF fault = StmtBegin
                 THEN TransferResult("error", 0, 0, rollback(c0))
                 ELSE TransferResult("exists",
                        c0.tx.transfers[k].outflow_transaction_id,
                        c0.tx.transfers[k].inflow_transaction_id, commit(c0))
        ELSE IF fault # 0
        THEN TransferResult("error", 0, 0, rollback(reached))
        ELSE TransferResult("created", out_txn_id, in_txn_id, commit(c5))

\* ------------------------------------------------------- fallback expense
\* The WHERE clause on entries.name: lower(e.name) = lower(name) for the
\* exact query, lower(e.name) LIKE '%name%' for the fallback.
NameMatches(n, name, exact) ==
    IF exact THEN Lower(n) = Lower(name)
    ELSE Like(Lower(n), <<"%">> \o Lower(Strip(name)) \o <<"%">>)

\* Number of entries, among the first i, joined to their transaction, that
\* carry category cat and whose name matches.
RECURSIVE CategoryCount(_, _, _, _, _)
CategoryCount(t, cat, name, exact, i) ==
    IF i = 0 THEN 0
    ELSE CategoryCount(t, cat, name, exact, i - 1) +
         (IF /\ t.entries[i].entryable_id \in 1..Len(t.transactions)
             /\ t.transactions[t.entries[i].entryable_id].category_id = cat
             /\ NameMatches(t.entries[i].name, name, exact)
          THEN 1 ELSE 0)

\* GROUP BY category_id ORDER BY cnt DESC LIMIT 1: the categories the query
\* may return (ties are broken by the store).
TopCategories(t, name, exact) ==
    LET cats == {t.transactions[k].category_id : k \in 1..Len(t.transactions)}
                  \ {NULL}
        n(cat) == CategoryCount(t, cat, name, exact, Len(t.entries))
    IN  {cat \in cats : n(cat) > 0 /\ \A o \in cats : n(o) <= n(cat)}

\* lookup_category_for_name_from_transactions: the category ids it may return
\* ({NULL}: none).  Exact case-insensitive match on entries.name first, then
\* LIKE '%name%'.  When a query raises it rolls back and returns None.
lookup_category_for_name_from_transactions(c, name, fault) ==
    IF name = <<>>
    THEN [cats |-> {NULL}, conn |-> c]
    ELSE IF Raises(c, fault)
    THEN [cats |-> {NULL}, conn |-> rollback(c)]
    ELSE LET exact == TopCategories(c.tx, name, TRUE)
             sub   == TopCategories(c.tx, name, FALSE)
         IN  [cats |-> IF exact # {} THEN exact
                       ELSE IF sub # {} THEN sub ELSE {NULL},
              conn |-> c]

\* An expense row that carries neither the transaction reference id nor the
\* UTR of its record.
ExpenseRow_unkeyed(r, self_account_id) ==
    [date |-> r.date, name |-> IF r.name = <<>> THEN <<"P","h","o","n","e","P","e">>
                               ELSE r.name,
     amount |-> Abs(safe_decimal(r.amount).val),
     external_id |-> NULL, source |-> NULL,
     self_account_id |-> self_account_id, created_at |-> r.created_at]

\* The row dictionary insert_transactions builds for the expense path.
ExpenseRow(r, self_account_id) ==
    [date |-> r.date, name |-> IF r.name = <<>> THEN <<"P","h","o","n","e","P","e">>
                               ELSE r.name,
     amount |-> Abs(safe_decimal(r.amount).val),
     external_id |-> r.utr_no, source |-> r.transaction_id,
     self_account_id |-> self_account_id, created_at |-> r.created_at]

ExpInsertTxn == 1
ExpInsertEntry == 2
ExpCommit == 3

\* An expense write that keeps the transaction row when the entry insert
\* raises.
expense_write_orphan(c, row, category, cat_fault, fault) ==
    LET lk == lookup_category_for_name_from_transactions(c, row.name, cat_fault)
        c0 == lk.conn
        trans_id == Len(c0.tx.transactions) + 1
        c1 == InsertTransaction(c0,
                [kind |-> "standard", category_id |-> category,
                 external_id |-> row.source, created_at |-> row.created_at])
        c2 == InsertEntry(c1,
                [account_id |-> row.self_account_id, entryable_id |-> trans_id,
                 amount |-> row.amount, date |-> row.date, name |-> row.name,
                 external_id |-> row.external_id, source |-> row.source])
    IN  IF Raises(c0, fault = ExpInsertTxn)
        THEN [ok |-> FALSE, conn |-> rollback(c0)]
        ELSE IF fault = ExpInsertEntry
        THEN [ok |-> FALSE, conn |-> commit(c1)]
        ELSE IF fault = ExpCommit
        THEN [ok |-> FALSE, conn |-> rollback(c2)]
        ELSE [ok |-> TRUE, conn |-> commit(c2)]

\* The expense write of insert_transactions (not dry-run): category lookup,
\* INSERT the 'standard' transaction, INSERT its entry, commit; any exception
\* rolls back.  `fault` names the statement that raises (0: none).
expense_write(c, row, category, cat_fault, fault) ==
    LET lk == lookup_category_for_name_from_transactions(c, row.name, cat_fault)
        c0 == lk.conn
        trans_id == Len(c0.tx.transactions) + 1
        c1 == InsertTransaction(c0,
                [kind |-> "standard", category_id |-> category,
                 external_id |-> row.source, created_at |-> row.created_at])
        c2 == InsertEntry(c1,
                [account_id |-> row.self_account_id, entryable_id |-> trans_id,
                 amount |-> row.amount, date |-> row.date, name |-> row.name,
                 external_id |-> row.external_id, source |-> row.source])
    IN  IF Raises(c0, fault = ExpInsertTxn)
        THEN [ok |-> FALSE, conn |-> rollback(c0)]
        ELSE IF fault = ExpInsertEntry
        THEN [ok |-> FALSE, conn |-> rollback(c1)]
        ELSE IF fault = ExpCommit
        THEN [ok |-> FALSE, conn |-> rollback(c2)]
        ELSE [ok |-> TRUE, conn |-> commit(c2)]

\* ------------------------------------------------------------------ inputs
PayeeHdfc == <<"H","D","F","C">>

PayeeSbi == <<"s","b","i">>

PayeeHdfcBank == <<"H","D","F","C"," ","B","a","n","k">>

PayeeAcme == <<"A","C","M","E">>

Payees == {PayeeHdfc, PayeeSbi, PayeeHdfcBank, PayeeAcme}

Types == {<<"D","E","B","I","T">>, <<"C","R","E","D","I","T">>, <<>>}

\* paid_by: absent, the number of a tracked account, a number of no account.
PaidBys == {NULL, "XX12", "XX99"}

ValidDate == "2025-10-28"

OldDate == "2025-09-30"

\* datetime.strptime(d, "%Y-%m-%d") succeeds.
IsIsoDate(d) == d \in {ValidDate, OldDate}

\* Order of the ISO dates of the model.
DateBefore(d, e) == d = OldDate /\ e # OldDate

MinDates == {NULL, "2025-10-01"}

Record(name, type, txn_id, utr, paid_by, date, amount) ==
    [date |-> date, name |-> name, type |-> type, transaction_id |-> txn_id,
     utr_no |-> utr, amount |-> amount, paid_by |-> paid_by,
     created_at |-> IF IsIsoDate(date) THEN date \o " 18:39:00.000000"
                    ELSE "2025-11-05 10:00:00.000000"]

\* Every payee, direction, key shape and paid_by, with a valid date and an
\* amount that quantizes upwards (25.00025 -> 25.0003).
ProductRecords ==
    {Record(n, t, k[1], k[2], p, ValidDate, Num(2500025)) :
        n \in Payees, t \in Types,
        k \in {<<"T1", "U1">>, <<"T1", NULL>>, <<NULL, "U1">>, <<NULL, NULL>>},
        p \in PaidBys}

\* Records with a missing, unparsed or old date, or another amount.
VariantRecords ==
    {Record(n, <<"C","R","E","D","I","T">>, "T1", "U1", NULL, d, Num(2500025)) :
        n \in {PayeeHdfc, PayeeAcme}, d \in {"", "28/10/2025", OldDate}}
    \cup
    {Record(n, <<"D","E","B","I","T">>, "T1", "U1", NULL, ValidDate, a) :
        n \in {PayeeHdfc, PayeeAcme},
        a \in {NoAmount, BadAmount, Num(0), Num(14)}}

\* The records that longer lists are made of.
CoreRecords ==
    { Record(PayeeAcme, <<"D","E","B","I","T">>, "T1", "U1", NULL, ValidDate, Num(1000)),
      Record(PayeeHdfc, <<"C","R","E","D","I","T">>, "T2", "U2", "XX34", ValidDate, Num(2000)),
      Record(PayeeAcme, <<"D","E","B","I","T">>, "T3", NULL, "XX99", ValidDate, Num(3000)),
      Record(PayeeHdfcBank, <<>>, NULL, NULL, "XX12", ValidDate, Num(4000)),
      Record(PayeeSbi, <<"D","E","B","I","T">>, "T1", NULL, NULL, "28/10/2025", Num(5000)),
      Record(PayeeSbi, <<"D","e","b","i","t">>, "T4", "U4", NULL, ValidDate, Num(6000)) }

\* Records with a missing or unparsed date or amount, for each paid_by.
DroppedRecords ==
    {Record(PayeeHdfc, <<"D","E","B","I","T">>, "T6", "U6", p, v[1], v[2]) :
        p \in PaidBys,
        v \in {<<"", Num(7000)>>, <<"28/10/2025", Num(7000)>>,
               <<ValidDate, NoAmount>>, <<ValidDate, BadAmount>>}}

\* The record that follows a dropped one.
FollowingRecord ==
    Record(PayeeSbi, <<"C","R","E","D","I","T">>, "T7", "U7", NULL, ValidDate, Num(8000))

RECURSIVE ListsOf(_, _)
ListsOf(S, n) ==
    IF n = 0 THEN {<<>>}
    ELSE {Append(l, x) : l \in ListsOf(S, n - 1), x \in S}

\* A record whose only key is a transaction reference id, followed by one
\* whose only key is a UTR of the same value.
CrossKeyRecords ==
    << Record(PayeeAcme, <<"D","E","B","I","T">>, "X1", NULL, NULL, ValidDate, Num(1000)),
       Record(PayeeAcme, <<"D","E","B","I","T">>, NULL, "X1", NULL, ValidDate, Num(9000)) >>

RecordLists ==
    {<<>>} \cup {<<r>> : r \in ProductRecords \cup VariantRecords}
           \cup UNION {ListsOf(CoreRecords, n) : n \in 1..MaxRecords}
           \cup {<<r, FollowingRecord>> : r \in DroppedRecords}
           \cup {CrossKeyRecords}

\* The store before the first run: one categorised historical expense.
SeedTables ==
    [transactions |-> << [kind |-> "standard", category_id |-> "cat-food",
                          external_id |-> "H1",
                          created_at |-> "2025-01-01 09:00:00.000000"] >>,
     entries |-> << [account_id |-> "acc-default", entryable_id |-> 1,
                     amount |-> 120000, date |-> "2025-01-01",
                     name |-> <<"A","c","m","e">>,
                     external_id |-> NULL, source |-> "H1"] >>,
     transfers |-> <<>>]

\* ------------------------------------------------------------ state machine
VARIABLES
    records,          \* the list handed to insert_transactions
    dry_run,          \* its dry_run argument
    min_date,         \* its min_date argument (NULL: none)
    run,              \* which run over the list this is
    idx,              \* position of the loop in records
    pc,               \* "record" | "transfer" | "expense" | "return" | "done"
    self_account,     \* (self_account_id, self_account_name) of the record
    transfer_result,  \* what perform_transfer returned for the record
    db,               \* committed tables
    tx,               \* tables as the connection sees them
    conn_failed,      \* the connection's transaction is aborted
    inserted,         \* the counter insert_transactions returns
    dry_rows,         \* rows collected in dry-run mode
    csv_file,         \* rows written to phonepe_parsed_dryrun.csv
    faults,           \* statements that have raised so far
    p_in,             \* the text handed to a parsing function
    p_out,            \* what the parsing functions returned, in call order
    p_from,           \* the block text each returned record was parsed from
    p_pc,             \* "idle" | "call" | "again" | "end" | "lines" | the entry point called
    pad_year          \* this build's strftime pads %Y to four digits

vars == <<records, dry_run, min_date, run, idx, pc, self_account,
          transfer_result, db, tx, conn_failed, inserted, dry_rows,
          csv_file, faults>>

\* The variables of the parsing functions, which the posting engine never
\* touches.
pvars == <<p_in, p_out, p_from, p_pc, pad_year>>

\* No parsing function is being applied.
ParserIdle ==
    /\ p_in = <<>>
    /\ p_out = <<>>
    /\ p_from = <<>>
    /\ p_pc = "idle"
    /\ pad_year = FALSE

Conn == [db |-> db, tx |-> tx, failed |-> conn_failed]

NoSelf == [id |-> NULL, name |-> <<>>]

NoResult == [status |-> "none", out_id |-> 0, in_id |-> 0]

\* A fault may be injected while the budget lasts.
MayFail(n) == faults + n <= MaxFaults

Flag(b) == IF b THEN 1 ELSE 0

Init ==
    /\ records \in RecordLists
    /\ dry_run \in BOOLEAN
    \* a min_date is tried on the one-record lists
    /\ min_date \in IF Len(records) <= 1 THEN MinDates ELSE {NULL}
    /\ run = 1
    /\ idx = 1
    /\ pc = IF records = <<>> THEN "return" ELSE "record"
    /\ self_account = NoSelf
    /\ transfer_result = NoResult
    /\ db = SeedTables
    /\ tx = SeedTables
    /\ conn_failed = FALSE
    /\ inserted = 0
    /\ dry_rows = <<>>
    /\ csv_file = <<>>
    /\ faults = 0
    /\ ParserIdle

SetConn(c) ==
    /\ db' = c.db
    /\ tx' = c.tx
    /\ conn_failed' = c.failed

\* `continue`: on to the next record, or out of the loop.
Continue ==
    /\ idx' = idx + 1
    /\ pc' = IF idx + 1 > Len(records) THEN "return" ELSE "record"

\* Top of the loop body (lines 990-1020): date checks, self-account
\* resolution, duplicate check, amount check.
ProcessRecord ==
    /\ pc = "record"
    /\ \E self_fault \in BOOLEAN, exists_fault \in BOOLEAN :
        LET r    == records[idx]
            skip == \/ ~(r.date # "" /\ r.date # NULL)
                    \/ ~IsIsoDate(r.date)
                    \/ (min_date # NULL /\ DateBefore(r.date, min_date))
            lk   == lookup_self_account_from_paid_by(Conn, r.paid_by, self_fault)
            \* unpacking None raises TypeError, caught outside the loop
            crash == Truthy(r.paid_by) /\ ~lk.found
            self  == IF lk.found /\ Truthy(lk.id)
                     THEN [id |-> lk.id, name |-> lk.name]
                     ELSE [id |-> DEFAULT_SELF_ACCOUNT_ID,
                           name |-> <<"S","E","L","F","_","A","C","C","O","U","N","T">>]
            ex   == txn_exists(lk.conn, r.transaction_id, r.utr_no, self.id,
                               exists_fault)
            used == IF skip THEN 0
                    ELSE IF crash THEN Flag(self_fault)
                    ELSE Flag(self_fault) + Flag(exists_fault)
        IN  /\ MayFail(used)
            /\ self_fault => (~skip /\ Truthy(r.paid_by))
            /\ exists_fault => (~skip /\ ~crash)
            /\ faults' = faults + used
            /\ transfer_result' = NoResult
            /\ IF skip
               THEN /\ Continue
                    /\ UNCHANGED <<self_account, db, tx, conn_failed>>
               ELSE IF crash
               THEN /\ pc' = "return"
                    /\ SetConn(lk.conn)
                    /\ UNCHANGED <<idx, self_account>>
               ELSE /\ SetConn(ex.conn)
                    /\ self_account' = self
                    /\ IF ex.exists \/ ~safe_decimal(r.amount).ok
                       THEN Continue
                       ELSE pc' = "transfer" /\ UNCHANGED idx
    /\ UNCHANGED <<records, dry_run, min_date, run, inserted, dry_rows, csv_file>>
    /\ UNCHANGED pvars

\* The perform_transfer call and the dispatch on its result (lines 1023-1031).
PerformTransfer ==
    /\ pc = "transfer"
    /\ \E lk_fault \in BOOLEAN, fault \in 0..StmtCommit :
        /\ MayFail(Flag(lk_fault) + Flag(fault # 0))
        /\ faults' = faults + Flag(lk_fault) + Flag(fault # 0)
        /\ LET r    == records[idx]
               rows == lookup_account_by_name(Conn, Strip(r.name), lk_fault).rows
           IN  /\ lk_fault => Strip(r.name) # <<>>
               /\ fault # 0 => (~lk_fault /\ rows # {})
               /\ \E pick \in IF rows = {} THEN {0} ELSE rows :
                   LET res == perform_transfer(Conn, r, self_account, pick,
                                               lk_fault, fault)
                   IN  /\ transfer_result' =
                            [status |-> res.status, out_id |-> res.out_id,
                             in_id |-> res.in_id]
                       /\ SetConn(res.conn)
                       /\ IF res.status \in {"created", "exists"}
                          THEN Continue
                          ELSE pc' = "expense" /\ UNCHANGED idx
    /\ UNCHANGED <<records, dry_run, min_date, run, self_account, inserted,
                   dry_rows, csv_file>>
    /\ UNCHANGED pvars

\* The normal expense path (lines 1033-1118).
ExpenseWrite ==
    /\ pc = "expense"
    /\ LET row == ExpenseRow(records[idx], self_account.id)
       IN  IF dry_run
           THEN /\ dry_rows' = Append(dry_rows, row)
                /\ UNCHANGED <<db, tx, conn_failed, inserted, faults>>
           ELSE \E cat_fault \in BOOLEAN, fault \in 0..ExpCommit :
                /\ MayFail(Flag(cat_fault) + Flag(fault # 0))
                /\ faults' = faults + Flag(cat_fault) + Flag(fault # 0)
                /\ \E category \in lookup_category_for_name_from_transactions(
                                       Conn, row.name, cat_fault).cats :
                    LET res == expense_write(Conn, row, category, cat_fault, fault)
                    IN  /\ SetConn(res.conn)
                        /\ inserted' = IF res.ok THEN inserted + 1 ELSE inserted
                        /\ UNCHANGED dry_rows
    /\ Continue
    /\ UNCHANGED <<records, dry_run, min_date, run, self_account,
                   transfer_result, csv_file>>
    /\ UNCHANGED pvars

\* After the loop (lines 1124-1133): the dry-run CSV, and the return.
Return ==
    /\ pc = "return"
    /\ csv_file' = IF dry_run /\ dry_rows # <<>> THEN dry_rows ELSE csv_file
    /\ pc' = "done"
    /\ UNCHANGED <<records, dry_run, min_date, run, idx, self_account,
                   transfer_result, db, tx, conn_failed, inserted, dry_rows,
                   faults>>
    /\ UNCHANGED pvars

\* main again on the same input: a new connection to the same store, and
\* insert_transactions over the same list with the same arguments.
Rerun ==
    /\ pc = "done"
    /\ run < MaxRuns
    /\ run' = run + 1
    /\ idx' = 1
    /\ pc' = IF records = <<>> THEN "return" ELSE "record"
    /\ self_account' = NoSelf
    /\ transfer_result' = NoResult
    /\ tx' = db
    /\ conn_failed' = FALSE
    /\ inserted' = 0
    /\ dry_rows' = <<>>
    /\ UNCHANGED <<records, dry_run, min_date, db, csv_file, faults>>
    /\ UNCHANGED pvars

Next == ProcessRecord \/ PerformTransfer \/ ExpenseWrite \/ Return \/ Rerun

Spec == Init /\ [][Next]_vars

\* ------------------------------------------------------------ dates as text
DigitChars == <<"0", "1", "2", "3", "4", "5", "6", "7", "8", "9">>

IsDigit(c) == \E i \in 1..Len(DigitChars) : DigitChars[i] = c

DigitVal ==
    [c \in {DigitChars[i] : i \in 1..Len(DigitChars)} |->
        (CHOOSE i \in 1..Len(DigitChars) : DigitChars[i] = c) - 1]

\* int() of a run of digits.
RECURSIVE ToInt(_)
ToInt(ds) ==
    IF ds = <<>> THEN 0
    ELSE 10 * ToInt(SubSeq(ds, 1, Len(ds) - 1)) + DigitVal[ds[Len(ds)]]

\* The decimal digits of n, zero-padded to at least w digits.
RECURSIVE Dec(_, _)
Dec(n, w) ==
    IF n < 10 /\ w <= 1 THEN <<DigitChars[n + 1]>>
    ELSE Append(Dec(n \div 10, w - 1), DigitChars[(n % 10) + 1])

\* Length of the run of digits that starts at pos.
RECURSIVE DigitRunLen(_, _)
DigitRunLen(s, pos) ==
    IF pos <= Len(s) /\ IsDigit(s[pos]) THEN 1 + DigitRunLen(s, pos + 1) ELSE 0

\* \s of the regular expressions.
IsSpace(c) == c \in Whitespace

\* Length of the run of white space that starts at pos.
RECURSIVE SpaceRunLen(_, _)
SpaceRunLen(s, pos) ==
    IF pos <= Len(s) /\ IsSpace(s[pos]) THEN 1 + SpaceRunLen(s, pos + 1) ELSE 0

\* dstr.replace(NBSP, " ")
ReplaceNbsp(s) == [i \in 1..Len(s) |-> IF s[i] = NBSP THEN " " ELSE s[i]]

\* re.sub(r",\s*(?=\d{4})", ", ", s), from pos on: a comma and the white
\* space after it become ", " when four digits follow.
RECURSIVE FixCommaFrom(_, _)
FixCommaFrom(s, pos) ==
    IF pos > Len(s) THEN <<>>
    ELSE IF s[pos] = "," /\ DigitRunLen(s, pos + 1 + SpaceRunLen(s, pos + 1)) >= 4
    THEN <<",", " ">> \o FixCommaFrom(s, pos + 1 + SpaceRunLen(s, pos + 1))
    ELSE <<s[pos]>> \o FixCommaFrom(s, pos + 1)

MonthAbbr ==
    << <<"J","a","n">>, <<"F","e","b">>, <<"M","a","r">>, <<"A","p","r">>,
       <<"M","a","y">>, <<"J","u","n">>, <<"J","u","l">>, <<"A","u","g">>,
       <<"S","e","p">>, <<"O","c","t">>, <<"N","o","v">>, <<"D","e","c">> >>

MonthFull ==
    << <<"J","a","n","u","a","r","y">>, <<"F","e","b","r","u","a","r","y">>,
       <<"M","a","r","c","h">>, <<"A","p","r","i","l">>, <<"M","a","y">>,
       <<"J","u","n","e">>, <<"J","u","l","y">>, <<"A","u","g","u","s","t">>,
       <<"S","e","p","t","e","m","b","e","r">>, <<"O","c","t","o","b","e","r">>,
       <<"N","o","v","e","m","b","e","r">>, <<"D","e","c","e","m","b","e","r">> >>

\* The text at pos starts with word, ignoring case.
StartsWithAt(s, pos, word) ==
    /\ pos + Len(word) - 1 <= Len(s)
    /\ Lower(SubSeq(s, pos, pos + Len(word) - 1)) = Lower(word)

\* The month (0: none) whose name, taken from names, starts at pos.
MonthAt(s, pos, names) ==
    LET hits == {m \in 1..Len(names) : StartsWithAt(s, pos, names[m])}
    IN  IF hits = {} THEN 0
        ELSE CHOOSE m \in hits : \A o \in hits : Len(names[o]) <= Len(names[m])

\* Number of characters %d takes at pos (0: no match):
\* 3[0-1]|[1-2]\d|0[1-9]|[1-9]
DayLen(s, pos) ==
    IF DigitRunLen(s, pos) >= 2 /\ ToInt(SubSeq(s, pos, pos + 1)) \in 1..31
    THEN 2
    ELSE IF DigitRunLen(s, pos) >= 1 /\ s[pos] # "0" THEN 1 ELSE 0

\* Number of characters %m takes at pos (0: no match): 1[0-2]|0[1-9]|[1-9]
MonthLen(s, pos) ==
    IF DigitRunLen(s, pos) >= 2 /\ ToInt(SubSeq(s, pos, pos + 1)) \in 1..12
    THEN 2
    ELSE IF DigitRunLen(s, pos) >= 1 /\ s[pos] # "0" THEN 1 ELSE 0

IsLeap(y) == (y % 4 = 0 /\ y % 100 # 0) \/ y % 400 = 0

DaysIn(y, m) ==
    IF m = 2 THEN (IF IsLeap(y) THEN 29 ELSE 28)
    ELSE IF m \in {4, 6, 9, 11} THEN 30 ELSE 31

\* datetime(y, m, d) does not raise.
ValidYMD(y, m, d) ==
    /\ y \in 1..9999
    /\ m \in 1..12
    /\ d >= 1 /\ d <= DaysIn(y, m)

NoDate == [ok |-> FALSE, y |-> 0, m |-> 0, d |-> 0]

\* The formats normalize_date tries, in order; a format is its directives,
\* white space and literal characters.
fmts ==
    << <<"%b", " ", "%d", ",", " ", "%Y">>,
       <<"%B", " ", "%d", ",", " ", "%Y">>,
       <<"%Y", "-", "%m", "-", "%d">>,
       <<"%d", "-", "%m", "-", "%Y">>,
       <<"%d", "/", "%m", "/", "%Y">> >>

\* datetime.strptime(s, fmt), matching item k of fmt at pos with the fields
\* found so far in acc: each directive takes what its regular expression
\* takes, white space in the format takes \s+, the whole of s must be
\* consumed and the fields must make a date.
RECURSIVE strptime(_, _, _, _, _)
strptime(s, pos, fmt, k, acc) ==
    IF k > Len(fmt)
    THEN IF pos = Len(s) + 1 /\ ValidYMD(acc.y, acc.m, acc.d)
         THEN [acc EXCEPT !.ok = TRUE] ELSE NoDate
    ELSE LET it == fmt[k]
         IN  IF it = " "
             THEN IF SpaceRunLen(s, pos) = 0 THEN NoDate
                  ELSE strptime(s, pos + SpaceRunLen(s, pos), fmt, k + 1, acc)
             ELSE IF it = "%d"
             THEN IF DayLen(s, pos) = 0 THEN NoDate
                  ELSE strptime(s, pos + DayLen(s, pos), fmt, k + 1,
                         [acc EXCEPT !.d = ToInt(SubSeq(s, pos, pos + DayLen(s, pos) - 1))])
             ELSE IF it = "%m"
             THEN IF MonthLen(s, pos) = 0 THEN NoDate
                  ELSE strptime(s, pos + MonthLen(s, pos), fmt, k + 1,
                         [acc EXCEPT !.m = ToInt(SubSeq(s, pos, pos + MonthLen(s, pos) - 1))])
             ELSE IF it = "%Y"
             THEN IF DigitRunLen(s, pos) < 4 THEN NoDate
                  ELSE strptime(s, pos + 4, fmt, k + 1,
                         [acc EXCEPT !.y = ToInt(SubSeq(s, pos, pos + 3))])
             ELSE IF it \in {"%b", "%B"}
             THEN LET names == IF it = "%b" THEN MonthAbbr ELSE MonthFull
                      m     == MonthAt(s, pos, names)
                  IN  IF m = 0 THEN NoDate
                      ELSE strptime(s, pos + Len(names[m]), fmt, k + 1,
                                    [acc EXCEPT !.m = m])
             ELSE IF pos <= Len(s) /\ s[pos] = it
                  THEN strptime(s, pos + 1, fmt, k + 1, acc)
                  ELSE NoDate

\* strftime("%Y-%m-%d"): the C library pads the year to four digits, or
\* does not (pad), the month and the day always to two.
strftime(y, m, d, pad) ==
    Dec(y, IF pad THEN 4 ELSE 1) \o <<"-">> \o Dec(m, 2) \o <<"-">> \o Dec(d, 2)

\* re.findall(r"\d+", s), from pos on.
RECURSIVE FindNums(_, _)
FindNums(s, pos) ==
    IF pos > Len(s) THEN <<>>
    ELSE IF DigitRunLen(s, pos) = 0 THEN FindNums(s, pos + 1)
    ELSE <<SubSeq(s, pos, pos + DigitRunLen(s, pos) - 1)>>
            \o FindNums(s, pos + DigitRunLen(s, pos))

\* The first of the formats k.. that parses s.
RECURSIVE FirstFormat(_, _)
FirstFormat(s, k) ==
    IF k > Len(fmts) THEN NoDate
    ELSE IF strptime(s, 1, fmts[k], 1, NoDate).ok
    THEN strptime(s, 1, fmts[k], 1, NoDate)
    ELSE FirstFormat(s, k + 1)

\* normalize_date (the same in both files).
normalize_date(dstr, pad) ==
    IF dstr = <<>> THEN <<>>
    ELSE The({
        LET p    == FirstFormat(s, 1)
            nums == FindNums(s, 1)
            ymd  == IF Len(nums[1]) = 4
                    THEN <<ToInt(nums[1]), ToInt(nums[2]), ToInt(nums[3])>>
                    ELSE <<ToInt(nums[3]), ToInt(nums[2]), ToInt(nums[1])>>
        IN  IF p.ok THEN strftime(p.y, p.m, p.d, pad)
            ELSE IF Len(nums) >= 3 /\ ValidYMD(ymd[1], ymd[2], ymd[3])
            THEN strftime(ymd[1], ymd[2], ymd[3], pad)
            ELSE s :
        s \in {FixCommaFrom(Strip(ReplaceNbsp(dstr)), 1)}})

\* ------------------------------------------------- normalize_date, applied
\* A date as a statement writes it: the text, and the year, month and day
\* it was written from.
Written(text, y, m, d) == [text |-> text, y |-> y, m |-> m, d |-> d]

Years == {2024, 2025}

Days == {1, 9, 10, 28, 29, 30, 31}

\* "Oct 28, 2025", "Oct 28,2025", "October 28, 2025", and the first with a
\* no-break space.
MonthNameTexts(y, m, d) ==
    { MonthAbbr[m] \o <<" ">> \o Dec(d, 1) \o <<",", " ">> \o Dec(y, 4),
      MonthAbbr[m] \o <<" ">> \o Dec(d, 2) \o <<",">> \o Dec(y, 4),
      MonthFull[m] \o <<" ">> \o Dec(d, 1) \o <<",", " ">> \o Dec(y, 4),
      MonthAbbr[m] \o <<NBSP>> \o Dec(d, 1) \o <<",", " ">> \o Dec(y, 4) }

\* "28/10/2025", "28-10-2025", with and without leading zeros, and the
\* same with the year written in two digits.
DayMonthYearTexts(y, m, d) ==
    { Dec(d, w) \o <<sep>> \o Dec(m, w) \o <<sep>> \o yt :
        w \in {1, 2}, sep \in {"/", "-"}, yt \in {Dec(y, 4), Dec(y % 100, 2)} }

\* "2025-10-28"
IsoTexts(y, m, d) == { Dec(y, 4) \o <<"-">> \o Dec(m, 2) \o <<"-">> \o Dec(d, 2) }

\* The date texts the model hands to normalize_date.
DateTexts ==
    UNION { { Written(t, y, m, d) :
                t \in MonthNameTexts(y, m, d) \cup DayMonthYearTexts(y, m, d)
                        \cup IsoTexts(y, m, d) } :
            y \in Years, m \in 1..12, d \in Days }

\* The variables of the posting engine, at rest.
PostingIdle ==
    /\ records = <<>>
    /\ dry_run = FALSE
    /\ min_date = NULL
    /\ run = 1
    /\ idx = 1
    /\ pc = "done"
    /\ self_account = NoSelf
    /\ transfer_result = NoResult
    /\ db = SeedTables
    /\ tx = SeedTables
    /\ conn_failed = FALSE
    /\ inserted = 0
    /\ dry_rows = <<>>
    /\ csv_file = <<>>
    /\ faults = 0

InitDate ==
    /\ PostingIdle
    /\ p_in \in DateTexts
    /\ p_out = <<>>
    /\ p_from = <<>>
    /\ p_pc = "call"
    /\ pad_year \in BOOLEAN

\* normalize_date(text)
NormalizeDate ==
    /\ p_pc = "call"
    /\ p_out' = <<normalize_date(p_in.text, pad_year)>>
    /\ p_pc' = "again"
    /\ UNCHANGED <<p_in, p_from, pad_year>>
    /\ UNCHANGED vars

\* normalize_date applied to what it returned.
NormalizeAgain ==
    /\ p_pc = "again"
    /\ p_out' = Append(p_out, normalize_date(p_out[1], pad_year))
    /\ p_pc' = "end"
    /\ UNCHANGED <<p_in, p_from, pad_year>>
    /\ UNCHANGED vars

NextDate == NormalizeDate \/ NormalizeAgain

SpecDate == InitDate /\ [][NextDate]_<<vars, pvars>>

\* ------------------------------------------------- the regular expressions
\* Each expression is an operator that gives, for a text and a position, the
\* length of the match that starts there (0: none), and a search for the
\* leftmost position at or after pos where a match starts (0: none).
IsLetter(c) == LowerChar[c] # c \/ \E i \in 1..Len(LowerChars) : LowerChars[i] = c

IsAlnum(c) == IsLetter(c) \/ IsDigit(c)

\* \w
IsWordChar(c) == IsAlnum(c) \/ c = "_"

RECURSIVE LetterRunLen(_, _)
LetterRunLen(s, pos) ==
    IF pos <= Len(s) /\ IsLetter(s[pos]) THEN 1 + LetterRunLen(s, pos + 1) ELSE 0

RECURSIVE AlnumRunLen(_, _)
AlnumRunLen(s, pos) ==
    IF pos <= Len(s) /\ IsAlnum(s[pos]) THEN 1 + AlnumRunLen(s, pos + 1) ELSE 0

\* \b at pos: exactly one of the characters before and at pos is a word
\* character.
WordBoundary(s, pos) ==
    (pos > 1 /\ pos - 1 <= Len(s) /\ IsWordChar(s[pos - 1]))
        # (pos >= 1 /\ pos <= Len(s) /\ IsWordChar(s[pos]))

\* The least member of a set of positions, 0 for the empty set.
FirstPos(S) ==
    The({IF T = {} THEN 0 ELSE CHOOSE p \in T : \A q \in T : p <= q : T \in {S}})

\* The greatest member of a non-empty set of positions.
Largest(S) == The({CHOOSE p \in T : \A q \in T : q <= p : T \in {S}})

\* Leftmost position at or after pos where word starts, ignoring case.
FindWord(s, pos, word) ==
    FirstPos({p \in pos..Len(s) : StartsWithAt(s, p, word)})

\* [A-Za-z]{3,9}\s*\d{1,2},\s*\d{4} at pos; wordEnd asks for \b after the year.
MonthDateLenAt(s, pos, wordEnd) ==
    LET l == LetterRunLen(s, pos)
        a == pos + l + SpaceRunLen(s, pos + l)
        n == DigitRunLen(s, a)
        b == a + n + 1 + SpaceRunLen(s, a + n + 1)
    IN  IF /\ l \in 3..9
           /\ n \in 1..2
           /\ a + n <= Len(s) /\ s[a + n] = ","
           /\ DigitRunLen(s, b) >= 4
           /\ wordEnd => WordBoundary(s, b + 4)
        THEN b + 4 - pos
        ELSE 0

\* \d{1,2}[-/]\d{1,2}[-/]\d{2,4} at pos.
DayMonthYearLenAt(s, pos) ==
    LET n1 == DigitRunLen(s, pos)
        p2 == pos + n1 + 1
        n2 == DigitRunLen(s, p2)
        p3 == p2 + n2 + 1
        n3 == DigitRunLen(s, p3)
    IN  IF /\ n1 \in 1..2
           /\ pos + n1 <= Len(s) /\ s[pos + n1] \in {"-", "/"}
           /\ n2 \in 1..2
           /\ p2 + n2 <= Len(s) /\ s[p2 + n2] \in {"-", "/"}
           /\ n3 >= 2
        THEN p3 + (IF n3 > 4 THEN 4 ELSE n3) - pos
        ELSE 0

\* \d{4}-\d{1,2}-\d{1,2} at pos.
IsoDateLenAt(s, pos) ==
    LET n1 == DigitRunLen(s, pos)
        p2 == pos + 5
        n2 == DigitRunLen(s, p2)
        p3 == p2 + n2 + 1
        n3 == DigitRunLen(s, p3)
    IN  IF /\ n1 = 4
           /\ pos + 4 <= Len(s) /\ s[pos + 4] = "-"
           /\ n2 \in 1..2
           /\ p2 + n2 <= Len(s) /\ s[p2 + n2] = "-"
           /\ n3 >= 1
        THEN p3 + (IF n3 > 2 THEN 2 ELSE n3) - pos
        ELSE 0

\* DATE_FIND_RE at pos: its three alternatives, in order.
DateLenAt(s, pos) ==
    IF MonthDateLenAt(s, pos, FALSE) > 0 THEN MonthDateLenAt(s, pos, FALSE)
    ELSE IF DayMonthYearLenAt(s, pos) > 0 THEN DayMonthYearLenAt(s, pos)
    ELSE IsoDateLenAt(s, pos)

DateFindFrom(s, pos) == FirstPos({p \in pos..Len(s) : DateLenAt(s, p) > 0})

\* m.group(1).strip() of DATE_FIND_RE.search(s); <<>> when there is no match.
DateToken(s) ==
    The({IF pos = 0 THEN <<>>
         ELSE Strip(SubSeq(s, pos, pos + DateLenAt(s, pos) - 1)) :
         pos \in {DateFindFrom(s, 1)}})

\* The characters of the class [-to] of DATE_RANGE_RE, ignoring case.
IsRangeSep(c) == c \in {"-", "t", "o", "T", "O"}

\* DATE_RANGE_RE matches at pos: a month-name date that starts and ends at a
\* word boundary, one to four separator characters with optional white space
\* around them, and a second such date.
DateRangeAt(s, pos) ==
    LET n1 == MonthDateLenAt(s, pos, TRUE)
        a  == pos + n1 + SpaceRunLen(s, pos + n1)
    IN  /\ WordBoundary(s, pos)
        /\ n1 > 0
        /\ \E k \in 1..4 :
            /\ \A i \in a..(a + k - 1) : i <= Len(s) /\ IsRangeSep(s[i])
            /\ LET b == a + k + SpaceRunLen(s, a + k)
               IN  WordBoundary(s, b) /\ MonthDateLenAt(s, b, TRUE) > 0

\* DATE_RANGE_RE.search(s)
DateRangeSearch(s) == \E pos \in 1..Len(s) : DateRangeAt(s, pos)

\* word1\s+word2 at pos, ignoring case: the position after it (0: none).
TwoWordsEnd(s, pos, word1, word2) ==
    LET a == pos + Len(word1)
        n == SpaceRunLen(s, a)
    IN  IF StartsWithAt(s, pos, word1) /\ n >= 1 /\ StartsWithAt(s, a + n, word2)
        THEN a + n + Len(word2) ELSE 0

WordTransaction == <<"t","r","a","n","s","a","c","t","i","o","n">>

WordStatement == <<"s","t","a","t","e","m","e","n","t">>

WordDetails == <<"d","e","t","a","i","l","s">>

WordFor == <<"f","o","r">>

WordDate == <<"d","a","t","e">>

\* PAGE_HEADER_MARKERS_RE.search(s): transaction\s+statement\s+for,
\* transaction\s+details, or date\s*$.
PageHeaderSearch(s) ==
    \E pos \in 1..Len(s) :
        \/ LET e == TwoWordsEnd(s, pos, WordTransaction, WordStatement)
           IN  e > 0 /\ SpaceRunLen(s, e) >= 1
                     /\ StartsWithAt(s, e + SpaceRunLen(s, e), WordFor)
        \/ TwoWordsEnd(s, pos, WordTransaction, WordDetails) > 0
        \/ /\ StartsWithAt(s, pos, WordDate)
           /\ pos + 4 + SpaceRunLen(s, pos + 4) = Len(s) + 1

\* TIME_FIND_RE at pos: \d{1,2}:\d{2}\s*(?:AM|PM), ignoring case.
TimeLenAt(s, pos) ==
    LET n1 == DigitRunLen(s, pos)
        a  == pos + n1 + 3
        b  == a + SpaceRunLen(s, a)
    IN  IF /\ n1 \in 1..2
           /\ pos + n1 <= Len(s) /\ s[pos + n1] = ":"
           /\ DigitRunLen(s, pos + n1 + 1) >= 2
           /\ (StartsWithAt(s, b, <<"a","m">>) \/ StartsWithAt(s, b, <<"p","m">>))
        THEN b + 2 - pos
        ELSE 0

TimeFindFrom(s, pos) == FirstPos({p \in pos..Len(s) : TimeLenAt(s, p) > 0})

\* mt.group(1).strip() of TIME_FIND_RE.search(s); <<>> when there is no match.
TimeToken(s) ==
    The({IF pos = 0 THEN <<>>
         ELSE Strip(SubSeq(s, pos, pos + TimeLenAt(s, pos) - 1)) :
         pos \in {TimeFindFrom(s, 1)}})

KwTransactionId == <<"T","r","a","n","s","a","c","t","i","o","n"," ","I","D">>

KwUtr == <<"U","T","R">>

KwInr == <<"I","N","R">>

KwDebit == <<"D","e","b","i","t">>

KwCredit == <<"C","r","e","d","i","t">>

\* The lookahead (?=(Transaction ID|UTR|INR|Debit|Credit|$)) holds at pos.
PayeeStopAt(s, pos) ==
    \/ pos > Len(s)
    \/ \E kw \in {KwTransactionId, KwUtr, KwInr, KwDebit, KwCredit} :
          StartsWithAt(s, pos, kw)

\* Least position after start where the lookahead holds: the end of (.+?).
PayeeEnd(s, pos) == FirstPos({p \in pos..(Len(s) + 1) : PayeeStopAt(s, p)})

\* The prefixes of the payee expression, in the order of its alternation.
PayeePrefixes ==
    << <<"P","a","i","d"," ","t","o">>,
       <<"R","e","c","e","i","v","e","d"," ","f","r","o","m">>,
       <<"B","i","l","l"," ","p","a","i","d"," ","-">>,
       <<"B","i","l","l"," ","p","a","i","d">> >>

\* group(2) of the payee expression for the prefix k.. that matches at pos:
\* [ok, text].  After the prefix \s* takes the white space and (.+?) at
\* least one character, up to the first place where the lookahead holds;
\* when only white space follows the prefix, (.+?) takes the last of it.
RECURSIVE PayeeAt(_, _, _)
PayeeAt(s, pos, k) ==
    IF k > Len(PayeePrefixes) THEN [ok |-> FALSE, text |-> <<>>]
    ELSE LET e     == pos + Len(PayeePrefixes[k])
             start == e + SpaceRunLen(s, e)
         IN  IF ~StartsWithAt(s, pos, PayeePrefixes[k])
             THEN PayeeAt(s, pos, k + 1)
             ELSE IF start <= Len(s)
             THEN [ok |-> TRUE,
                   text |-> SubSeq(s, start, PayeeEnd(s, start + 1) - 1)]
             ELSE IF start > e
             THEN [ok |-> TRUE, text |-> <<s[Len(s)]>>]
             ELSE PayeeAt(s, pos, k + 1)

\* re.search of the payee expression, from pos on.
PayeeSearch(s, pos) ==
    The({IF at = 0 THEN [ok |-> FALSE, text |-> <<>>] ELSE PayeeAt(s, at, 1) :
         at \in {FirstPos({p \in pos..Len(s) : PayeeAt(s, p, 1).ok})}})

\* str.rstrip(",")
RECURSIVE RStripComma(_)
RStripComma(s) ==
    IF s # <<>> /\ s[Len(s)] = "," THEN RStripComma(SubSeq(s, 1, Len(s) - 1))
    ELSE s

\* str.strip(" ,:-")
RECURSIVE StripPunct(_)
StripPunct(s) ==
    IF s # <<>> /\ Head(s) \in {" ", ",", ":", "-"} THEN StripPunct(Tail(s))
    ELSE IF s # <<>> /\ s[Len(s)] \in {" ", ",", ":", "-"}
    THEN StripPunct(SubSeq(s, 1, Len(s) - 1))
    ELSE s

\* One of the separators of the re.split of parse_block_text starts at pos:
\* Transaction\s*ID, UTR, INR, Debited\s*from, Credited\s*to, Debit, Credit.
SplitAt(s, pos) ==
    \/ /\ StartsWithAt(s, pos, WordTransaction)
       /\ StartsWithAt(s, pos + 11 + SpaceRunLen(s, pos + 11), <<"i","d">>)
    \/ \E kw \in {KwUtr, KwInr, KwDebit, KwCredit} : StartsWithAt(s, pos, kw)

\* parts[0] of that split: the text before the first separator.
SplitHead(s, pos) ==
    The({IF at = 0 THEN s ELSE SubSeq(s, 1, at - 1) :
         at \in {FirstPos({p \in pos..Len(s) : SplitAt(s, p)})}})

\* Length of the run of the characters of [:\-\s] that starts at pos.
RECURSIVE SepRunLen(_, _)
SepRunLen(s, pos) ==
    IF pos <= Len(s) /\ (IsSpace(s[pos]) \/ s[pos] \in {":", "-"})
    THEN 1 + SepRunLen(s, pos + 1) ELSE 0

\* prefix [:\-\s]* ([A-Za-z0-9]+) where the prefix ends before pos: the
\* group, <<>> when there is none.
IdGroupAt(s, pos) ==
    LET a == pos + SepRunLen(s, pos)
    IN  SubSeq(s, a, a + AlnumRunLen(s, a) - 1)

\* TXN_ID_RE: Transaction\s*ID\s*[:\-\s]*([A-Za-z0-9]+); the group of the
\* leftmost match from pos on, <<>> when there is none.
TxnIdAt(s, pos) ==
    LET a == pos + 11 + SpaceRunLen(s, pos + 11)
    IN  IF StartsWithAt(s, pos, WordTransaction) /\ StartsWithAt(s, a, <<"i","d">>)
        THEN IdGroupAt(s, a + 2) ELSE <<>>

TxnIdSearch(s, pos) ==
    The({IF at = 0 THEN <<>> ELSE TxnIdAt(s, at) :
         at \in {FirstPos({p \in pos..Len(s) : TxnIdAt(s, p) # <<>>})}})

IsUpper(c) == LowerChar[c] # c

RECURSIVE UpperRunLen(_, _)
UpperRunLen(s, pos) ==
    IF pos <= Len(s) /\ IsUpper(s[pos]) THEN 1 + UpperRunLen(s, pos + 1) ELSE 0

\* \b([A-Z]{1,4}\d{5,}[A-Za-z0-9]*)\b at pos: the length of the group.
BareIdLenAt(s, pos) ==
    LET u == UpperRunLen(s, pos)
        d == DigitRunLen(s, pos + u)
        n == u + d + AlnumRunLen(s, pos + u + d)
    IN  IF /\ WordBoundary(s, pos)
           /\ u \in 1..4 /\ d >= 5
           /\ WordBoundary(s, pos + n)
        THEN n ELSE 0

\* The group of the leftmost match of that expression, <<>> when none.
BareIdSearch(s, pos) ==
    The({IF at = 0 THEN <<>> ELSE SubSeq(s, at, at + BareIdLenAt(s, at) - 1) :
         at \in {FirstPos({p \in pos..Len(s) : BareIdLenAt(s, p) > 0})}})

\* UTR_RE: UTR\s*No\.?\s*[:\-\s]*([A-Za-z0-9]+) with dot, the older
\* UTR\s*No\s*[:\-\s]*([A-Za-z0-9]+) without; the group of the leftmost
\* match from pos on, <<>> when there is none.
UtrAt(s, pos, dot) ==
    LET a == pos + 3 + SpaceRunLen(s, pos + 3)
        b == IF dot /\ a + 2 <= Len(s) /\ s[a + 2] = "." THEN a + 3 ELSE a + 2
    IN  IF StartsWithAt(s, pos, KwUtr) /\ StartsWithAt(s, a, <<"n","o">>)
        THEN IdGroupAt(s, b) ELSE <<>>

UtrSearch(s, pos, dot) ==
    The({IF at = 0 THEN <<>> ELSE UtrAt(s, at, dot) :
         at \in {FirstPos({p \in pos..Len(s) : UtrAt(s, p, dot) # <<>>})}})

\* Length of the run of [0-9,] that starts at pos.
RECURSIVE NumCommaRunLen(_, _)
NumCommaRunLen(s, pos) ==
    IF pos <= Len(s) /\ (IsDigit(s[pos]) \/ s[pos] = ",")
    THEN 1 + NumCommaRunLen(s, pos + 1) ELSE 0

\* Length of (?:\.[0-9]+)? at pos.
FractionLenAt(s, pos) ==
    IF pos <= Len(s) /\ s[pos] = "." /\ DigitRunLen(s, pos + 1) >= 1
    THEN 1 + DigitRunLen(s, pos + 1) ELSE 0

\* ([0-9,]+(?:\.[0-9]+)?) at pos: its length.
InrGroupLenAt(s, pos) ==
    LET n == NumCommaRunLen(s, pos)
    IN  IF n = 0 THEN 0 ELSE n + FractionLenAt(s, pos + n)

\* The currency words of INR_AMT_RE, in the order of its alternation; the
\* older expression has INR alone.
CurrencyWords(rs) ==
    IF rs THEN <<KwInr, <<"R","s",".">>, <<"R","s">> >> ELSE <<KwInr>>

\* (?:INR|Rs\.?)\s*([0-9,]+(?:\.[0-9]+)?) at pos, for the currency words
\* k..: the group, <<>> when there is no match.
RECURSIVE InrAt(_, _, _, _)
InrAt(s, pos, rs, k) ==
    IF k > Len(CurrencyWords(rs)) THEN <<>>
    ELSE LET w == CurrencyWords(rs)[k]
             a == pos + Len(w) + SpaceRunLen(s, pos + Len(w))
         IN  IF StartsWithAt(s, pos, w) /\ InrGroupLenAt(s, a) > 0
             THEN SubSeq(s, a, a + InrGroupLenAt(s, a) - 1)
             ELSE InrAt(s, pos, rs, k + 1)

\* INR_AMT_RE.search(s).group(1) from pos on, <<>> when there is no match.
InrSearch(s, pos, rs) ==
    The({IF at = 0 THEN <<>> ELSE InrAt(s, at, rs, 1) :
         at \in {FirstPos({p \in pos..Len(s) : InrAt(s, p, rs, 1) # <<>>})}})

\* Position after the groups (,ddd)* that start at pos.
RECURSIVE ThousandsEnd(_, _)
ThousandsEnd(s, pos) ==
    IF pos <= Len(s) /\ s[pos] = "," /\ DigitRunLen(s, pos + 1) >= 3
    THEN ThousandsEnd(s, pos + 4) ELSE pos

\* AMOUNT_RE at pos: [0-9]{1,3}(?:,[0-9]{3})*(?:\.[0-9]+), or else
\* \d+(?:\.[0-9]+)? ; its length.
AmountLenAt(s, pos) ==
    LET n == DigitRunLen(s, pos)
        e == ThousandsEnd(s, pos + n)
    IN  IF n \in 1..3 /\ FractionLenAt(s, e) > 0
           /\ (e = pos + n \/ DigitRunLen(s, e - 3) = 3)
        THEN e + FractionLenAt(s, e) - pos
        ELSE IF n >= 1 THEN n + FractionLenAt(s, pos + n)
        ELSE 0

\* AMOUNT_RE.findall(s)[-1] from pos on, last being the match found so far.
RECURSIVE LastAmount(_, _, _)
LastAmount(s, pos, last) ==
    The({IF at = 0 THEN last
         ELSE The({LastAmount(s, at + n, SubSeq(s, at, at + n - 1)) :
                   n \in {AmountLenAt(s, at)}}) :
         at \in {FirstPos({p \in pos..Len(s) : AmountLenAt(s, p) > 0})}})

\* AMOUNT_RE.search(s) finds a match.
AmountSearch(s) == \E pos \in 1..Len(s) : IsDigit(s[pos])

\* str.replace(",", "")
RECURSIVE DropCommas(_)
DropCommas(s) ==
    IF s = <<>> THEN <<>>
    ELSE IF Head(s) = "," THEN DropCommas(Tail(s))
    ELSE <<Head(s)>> \o DropCommas(Tail(s))

\* f"{float(txt):.2f}" for digits with an optional fraction: the integer
\* part without leading zeros, a point and two digits.  The model's amounts
\* have at most two fractional digits; further digits round to nearest.
Fixed2(txt) ==
    LET n     == DigitRunLen(txt, 1)
        whole == ToInt(SubSeq(txt, 1, n))
        frac  == SubSeq(txt, n + 2, Len(txt))
        cents == ToInt(SubSeq(frac \o <<"0", "0">>, 1, 2))
        up    == Len(frac) > 2 /\ DigitVal[frac[3]] >= 5
        total == whole * 100 + cents + (IF up THEN 1 ELSE 0)
    IN  Dec(total \div 100, 1) \o <<".">> \o Dec(total % 100, 2)

\* \bDebit\b / \bCredit\b is found in s, ignoring case.
WordSearch(s, word) ==
    \E pos \in 1..Len(s) :
        /\ StartsWithAt(s, pos, word)
        /\ WordBoundary(s, pos)
        /\ WordBoundary(s, pos + Len(word))

\* str.upper() on one character.
UpperChar ==
    [c \in Chars |->
        IF \E i \in 1..Len(LowerChars) : LowerChars[i] = c
        THEN UpperChars[CHOOSE i \in 1..Len(LowerChars) : LowerChars[i] = c]
        ELSE c]

Upper(s) == [i \in 1..Len(s) |-> UpperChar[s[i]]]

\* datetime.strptime(t, "%I:%M %p") or, without am, "%H:%M": [ok, h, m].
\* %I takes 1[0-2]|0[1-9]|[1-9], %H 2[0-3]|[0-1]\d|\d, %M [0-5]\d|\d, the
\* blank \s+, %p AM or PM.
ParseTime(t, ampm) ==
    LET n1 == IF DigitRunLen(t, 1) >= 2
                 /\ ToInt(SubSeq(t, 1, 2)) \in (IF ampm THEN 1..12 ELSE 0..23)
              THEN 2
              ELSE IF DigitRunLen(t, 1) >= 1 /\ (~ampm \/ t[1] # "0") THEN 1
              ELSE 0
        h  == ToInt(SubSeq(t, 1, n1))
        n2 == IF DigitRunLen(t, n1 + 2) >= 2
                 /\ ToInt(SubSeq(t, n1 + 2, n1 + 3)) \in 0..59
              THEN 2
              ELSE IF DigitRunLen(t, n1 + 2) >= 1 THEN 1 ELSE 0
        m  == ToInt(SubSeq(t, n1 + 2, n1 + 1 + n2))
        a  == n1 + 2 + n2
        b  == a + SpaceRunLen(t, a)
        pm == StartsWithAt(t, b, <<"p","m">>)
    IN  IF n1 = 0 \/ n1 + 1 > Len(t) \/ t[n1 + 1] # ":" \/ n2 = 0
        THEN [ok |-> FALSE, h |-> 0, m |-> 0]
        ELSE IF ampm
        THEN [ok |-> /\ b > a
                     /\ (pm \/ StartsWithAt(t, b, <<"a","m">>))
                     /\ b + 2 = Len(t) + 1,
              h |-> (h % 12) + (IF pm THEN 12 ELSE 0), m |-> m]
        ELSE [ok |-> a = Len(t) + 1, h |-> h, m |-> m]

\* normalize_time
normalize_time(tstr) ==
    IF tstr = <<>> THEN <<>>
    ELSE The({
        IF ParseTime(t, TRUE).ok
        THEN Dec(ParseTime(t, TRUE).h, 2) \o <<":">> \o Dec(ParseTime(t, TRUE).m, 2)
        ELSE IF ParseTime(t, FALSE).ok
        THEN Dec(ParseTime(t, FALSE).h, 2) \o <<":">> \o Dec(ParseTime(t, FALSE).m, 2)
        ELSE t :
        t \in {Upper(Strip(tstr))}})

\* The time stamp of the run's wall clock.
WallClock == [clock |-> TRUE, text |-> <<>>]

\* created_at: strptime(f"{date_norm} {ts_time}", "%Y-%m-%d %H:%M") printed
\* with seconds and microseconds, or else datetime.now().
created_at_of(date_norm, time_norm, pad) ==
    The({IF d.ok /\ t.ok
         THEN [clock |-> FALSE,
               text |-> strftime(d.y, d.m, d.d, pad) \o <<" ">>
                        \o Dec(t.h, 2) \o <<":">> \o Dec(t.m, 2)
                        \o <<":","0","0",".","0","0","0","0","0","0">>]
         ELSE WallClock :
         d \in {strptime(date_norm, 1, fmts[3], 1, NoDate)},
         t \in {ParseTime(IF time_norm = <<>> THEN <<"0","0",":","0","0">>
                          ELSE time_norm, FALSE)}})

\* ------------------------------------------------------ parse_pdf2txt_lines
\* " ".join of the stripped, non-empty lines at the positions idxs (a
\* sequence of positions), from its element k on.
RECURSIVE JoinLines(_, _, _)
JoinLines(lines, idxs, k) ==
    IF k > Len(idxs) THEN <<>>
    ELSE The({IF ln = <<>> THEN rest
              ELSE IF rest = <<>> THEN ln
              ELSE ln \o <<" ">> \o rest :
              ln \in {Strip(lines[idxs[k]])},
              rest \in {JoinLines(lines, idxs, k + 1)}})

\* list(range(a, b + 1))
Range(a, b) == [i \in 1..(IF b >= a THEN b - a + 1 ELSE 0) |-> a + i - 1]

\* The lone header tokens that are never date anchors.
HeaderTokens ==
    { WordDate,
      <<"t","r","a","n","s","a","c","t","i","o","n"," ","d","e","t","a","i","l","s">>,
      <<"d","a","t","e"," ","t","r","a","n","s","a","c","t","i","o","n"," ",
        "d","e","t","a","i","l","s">> }

\* A context window of three lines back and three ahead.
ContextWindow_three_ahead(lines, at) ==
    The({JoinLines(lines, idxs, 1) :
         idxs \in {Range(IF at - 3 < 1 THEN 1 ELSE at - 3,
                         IF at + 3 > Len(lines) THEN Len(lines) ELSE at + 3)}})

\* The context window of a position: three lines back, two ahead.
ContextWindow(lines, at) ==
    The({JoinLines(lines, idxs, 1) :
         idxs \in {Range(IF at - 3 < 1 THEN 1 ELSE at - 3,
                         IF at + 2 > Len(lines) THEN Len(lines) ELSE at + 2)}})

\* The line at that position is a date anchor (the loop of lines 279-305).
IsAnchor(lines, at) ==
    \E ln \in {Strip(lines[at])} :
        /\ ln # <<>>
        /\ ~DateRangeSearch(ln)
        /\ Lower(ln) \notin HeaderTokens
        /\ ~PageHeaderSearch(ContextWindow(lines, at))
        /\ DateFindFrom(ln, 1) > 0

\* date_indices, in increasing order.
RECURSIVE AnchorsFrom(_, _)
AnchorsFrom(lines, at) ==
    IF at > Len(lines) THEN <<>>
    ELSE IF IsAnchor(lines, at) THEN <<at>> \o AnchorsFrom(lines, at + 1)
    ELSE AnchorsFrom(lines, at + 1)

date_indices(lines) == AnchorsFrom(lines, 1)

HEADER_KEYWORDS ==
    << <<"d","a","t","e"," ","t","r","a","n","s","a","c","t","i","o","n"," ",
         "d","e","t","a","i","l","s">>,
       <<"t","r","a","n","s","a","c","t","i","o","n"," ","d","e","t","a","i","l","s">>,
       <<"d","a","t","e"," ","t","r","a","n","s","a","c","t","i","o","n"," ",
         "d","e","t","a","i","l","s"," ","t","y","p","e"," ","a","m","o","u","n","t">> >>

\* The block cut at the first header keyword it holds, and stripped.
TruncateAtHeader(block_text) ==
    The({IF first_pos = 0 THEN block_text
         ELSE Strip(SubSeq(block_text, 1, first_pos - 1)) :
         first_pos \in {FirstPos({FindWord(block_text, 1, HEADER_KEYWORDS[k]) :
                                    k \in 1..Len(HEADER_KEYWORDS)} \ {0})}})

\* The token of the first of the lines idxs[k..] in which the search finds
\* one; <<>> when none does.
RECURSIVE FirstDateToken(_, _, _)
FirstDateToken(lines, idxs, k) ==
    IF k > Len(idxs) THEN <<>>
    ELSE The({IF token # <<>> THEN token ELSE FirstDateToken(lines, idxs, k + 1) :
              token \in {DateToken(lines[idxs[k]])}})

RECURSIVE FirstTimeToken(_, _, _)
FirstTimeToken(lines, idxs, k) ==
    IF k > Len(idxs) THEN <<>>
    ELSE The({IF token # <<>> THEN token ELSE FirstTimeToken(lines, idxs, k + 1) :
              token \in {TimeToken(lines[idxs[k]])}})

NoRecord == [ok |-> FALSE]

TextPhonePe == <<"P","h","o","n","e","P","e">>

\* parse_block_text from the header truncation on (lines 325-451):
\* [ok |-> FALSE] for None, else the record, in which an empty text stands
\* for None.
BlockRecord(lines, text, consumed_idxs, pad) ==
    The({
      IF block_text = <<>> THEN NoRecord
      ELSE The({
        IF date_token = <<>> THEN NoRecord
        ELSE The({
          LET m_paid     == PayeeSearch(block_text, 1)
              paid_to    == IF m_paid.ok THEN RStripComma(Strip(m_paid.text))
                            ELSE StripPunct(Strip(SplitHead(block_text, 1)))
              mtx        == TxnIdSearch(block_text, 1)
              txn_id     == IF mtx # <<>> THEN mtx ELSE BareIdSearch(block_text, 1)
              utr        == UtrSearch(block_text, 1, TRUE)
              txn_type   == IF WordSearch(block_text, KwDebit) THEN KwDebit
                            ELSE IF WordSearch(block_text, KwCredit) THEN KwCredit
                            ELSE <<>>
              amount_val == IF amount_txt = <<>> THEN <<>>
                            ELSE IF txn_type = KwDebit
                            THEN <<"-">> \o Fixed2(amount_txt)
                            ELSE Fixed2(amount_txt)
          IN  [ok |-> TRUE,
               date |-> date_norm,
               time |-> time_norm,
               created_at |-> created_at_of(date_norm, time_norm, pad),
               name |-> IF paid_to = <<>> THEN TextPhonePe ELSE paid_to,
               transaction_id |-> txn_id,
               utr_no |-> utr,
               type |-> txn_type,
               amount |-> amount_val] :
          date_norm \in {normalize_date(date_token, pad)},
          time_norm \in {normalize_time(time_token)},
          amount_txt \in {The({DropCommas(IF m_inr # <<>> THEN m_inr
                                          ELSE LastAmount(block_text, 1, <<>>)) :
                               m_inr \in {InrSearch(block_text, 1, TRUE)}})}}) :
        date_token \in {The({IF in_lines # <<>> THEN in_lines
                             ELSE DateToken(block_text) :
                             in_lines \in {FirstDateToken(lines, consumed_idxs, 1)}})},
        time_token \in {The({IF in_lines # <<>> THEN in_lines
                             ELSE TimeToken(block_text) :
                             in_lines \in {FirstTimeToken(lines, consumed_idxs, 1)}})}}) :
      block_text \in {TruncateAtHeader(text)}})

\* parse_block_text without the date-range test of lines 318-319.
parse_block_text_NoRangeTest(lines, text, consumed_idxs, pad) ==
    IF Strip(text) = <<>> THEN NoRecord
    ELSE IF PageHeaderSearch(text) THEN NoRecord
    ELSE BlockRecord(lines, text, consumed_idxs, pad)

\* parse_block_text: a blank block, a block holding a date range and a block
\* holding the page header give None.
parse_block_text(lines, text, consumed_idxs, pad) ==
    IF Strip(text) = <<>> THEN NoRecord
    ELSE IF DateRangeSearch(text) THEN NoRecord
    ELSE IF PageHeaderSearch(text) THEN NoRecord
    ELSE BlockRecord(lines, text, consumed_idxs, pad)

\* The block of the anchor k, from its line up to the next anchor or the end
\* of the lines, with what parse_block_text makes of it.
BlockAt(lines, anchors, k, pad) ==
    The({The({[rec |-> parse_block_text(lines, block_text, idxs, pad),
               block |-> block_text] :
              block_text \in {JoinLines(lines, idxs, 1)}}) :
         idxs \in {Range(anchors[k], IF k + 1 <= Len(anchors) THEN anchors[k + 1] - 1
                                     ELSE Len(lines))}})

\* The initial pass: one block per anchor; each record is kept with the block
\* text it was parsed from.
InitialPass(lines, anchors, pad) ==
    SelectSeq([k \in 1..Len(anchors) |-> BlockAt(lines, anchors, k, pad)],
              LAMBDA f : f.rec.ok)

\* INR_AMT_RE.search(ln) or AMOUNT_RE.search(ln), on a non-blank line
HasAmount(ln) ==
    /\ Strip(ln) # <<>>
    /\ \/ InrSearch(ln, 1, TRUE) # <<>>
       \/ AmountSearch(ln)

\* The positions in increasing order of the members of a set of positions.
RECURSIVE SortedIdxs(_)
SortedIdxs(S) ==
    The({IF T = {} THEN <<>>
         ELSE The({<<lo>> \o SortedIdxs(T \ {lo}) :
                   lo \in {CHOOSE p \in T : \A q \in T : p <= q}}) :
         T \in {S}})

\* The duplicate test of the secondary pass.
IsDuplicate(rec, found) ==
    \E k \in 1..Len(found) :
        \/ /\ rec.transaction_id # <<>>
           /\ rec.transaction_id = found[k].rec.transaction_id
        \/ /\ rec.amount # <<>>
           /\ rec.amount = found[k].rec.amount
           /\ rec.date = found[k].rec.date

\* A secondary pass that attaches each unused line holding an amount to the
\* first date anchor, which comes after it.
StrayPass_forward(lines, anchors, strays, k, used, found, pad) ==
    found \o
    SelectSeq([j \in 1..Len(strays) |->
                  The({[rec |-> parse_block_text(lines, block_text, idxs, pad),
                        block |-> block_text] :
                       idxs \in {<<strays[j], anchors[1]>>},
                       block_text \in {JoinLines(lines, <<strays[j], anchors[1]>>, 1)}})],
              LAMBDA f : f.rec.ok)

\* The secondary pass: each unused line holding an amount is attached to the
\* nearest date anchor before it.
RECURSIVE StrayPass(_, _, _, _, _, _, _)
StrayPass(lines, anchors, strays, k, used, found, pad) ==
    IF k > Len(strays) THEN found
    ELSE The({
      IF prev_dates = {} \/ new_idxs = {}
      THEN StrayPass(lines, anchors, strays, k + 1, used, found, pad)
      ELSE The({The({The({
        StrayPass(lines, anchors, strays, k + 1, now_used, now_found, pad) :
        now_used \in {used \cup new_idxs},
        now_found \in {IF f.rec.ok /\ ~IsDuplicate(f.rec, found) THEN Append(found, f)
                       ELSE found}}) :
        f \in {The({[rec |-> parse_block_text(lines, block_text, idxs, pad),
                     block |-> block_text] :
                    block_text \in {JoinLines(lines, idxs, 1)}})}}) :
        idxs \in {SortedIdxs({Largest(prev_dates)} \cup new_idxs)}}) :
      prev_dates \in {{anchors[a] : a \in 1..Len(anchors)} \cap 1..(strays[k] - 1)},
      new_idxs \in {IF {anchors[a] : a \in 1..Len(anchors)} \cap 1..(strays[k] - 1) = {}
                    THEN {}
                    ELSE (Largest({anchors[a] : a \in 1..Len(anchors)}
                                  \cap 1..(strays[k] - 1))..strays[k]) \ used}})

\* The characters in code point order.
CharOrder ==
    <<NL, " ", "%", "&", ",", "-", ".", "/",
      "0", "1", "2", "3", "4", "5", "6", "7", "8", "9", ":">> \o
    UpperChars \o <<"_">> \o LowerChars \o <<NBSP>>

CharCode(c) == CHOOSE i \in 1..Len(CharOrder) : CharOrder[i] = c

\* a <= b for two texts, as Python compares str
RECURSIVE TextLeq(_, _)
TextLeq(a, b) ==
    IF a = <<>> THEN TRUE
    ELSE IF b = <<>> THEN FALSE
    ELSE IF Head(a) = Head(b) THEN TextLeq(Tail(a), Tail(b))
    ELSE CharCode(Head(a)) < CharCode(Head(b))

\* (date, time) of a <= (date, time) of b
KeyLeq(a, b) ==
    IF a.rec.date = b.rec.date THEN TextLeq(a.rec.time, b.rec.time)
    ELSE TextLeq(a.rec.date, b.rec.date)

\* list.sort(key = (date, time)): stable
RECURSIVE SortByDateTime(_)
SortByDateTime(found) ==
    The({IF fs = <<>> THEN <<>>
         ELSE The({
           The({SubSeq(sorted, 1, at) \o <<last>> \o
                    SubSeq(sorted, at + 1, Len(sorted)) :
                at \in {IF \E k \in 1..Len(sorted) : KeyLeq(sorted[k], last)
                        THEN Largest({k \in 1..Len(sorted) : KeyLeq(sorted[k], last)})
                        ELSE 0}}) :
           last \in {fs[Len(fs)]},
           sorted \in {SortByDateTime(SubSeq(fs, 1, Len(fs) - 1))}}) :
         fs \in {found}})

\* The final filter keeps the record.
KeptName(rec) ==
    LET nm == Strip(rec.name)
    IN  /\ nm # <<>>
        /\ ~DateRangeSearch(nm)
        /\ ~PageHeaderSearch(nm)

Filtered(found) == SelectSeq(found, LAMBDA f : KeptName(f.rec))

\* parse_pdf2txt_lines of phonepe_expense_update.py, each record with the
\* block it was parsed from.
ParsedBlocks(lines, pad) ==
    The({IF anchors = <<>> THEN <<>>
         ELSE The({Filtered(SortByDateTime(
                       StrayPass(lines, anchors, strays, 1, used, first, pad))) :
                   used   \in {anchors[1]..Len(lines)},
                   strays \in {SortedIdxs({i \in (1..Len(lines)) \ (anchors[1]..Len(lines)) :
                                              HasAmount(lines[i])})},
                   first  \in {InitialPass(lines, anchors, pad)}}) :
         anchors \in {date_indices(lines)}})

parse_pdf2txt_lines(lines, pad) ==
    The({[k \in 1..Len(found) |-> found[k].rec] : found \in {ParsedBlocks(lines, pad)}})

\* ---------------------------------------------------- parse_text_for_records
\* The expression of parse_text_for_records is matched piece by piece.  Each
\* piece takes the position where it starts and gives the position after it,
\* 0 when it does not match; a piece that starts at 0 does not match.

\* '\n'.join(lines)
RECURSIVE JoinNL(_)
JoinNL(lines) ==
    IF lines = <<>> THEN <<>>
    ELSE IF Len(lines) = 1 THEN lines[1]
    ELSE lines[1] \o <<NL>> \o JoinNL(Tail(lines))

\* \s*
Ws0(s, pos) == The({IF p = 0 THEN 0 ELSE p + SpaceRunLen(s, p) : p \in {pos}})

\* \s+
Ws1(s, pos) ==
    The({IF p = 0 \/ SpaceRunLen(s, p) < 1 THEN 0 ELSE p + SpaceRunLen(s, p) :
         p \in {pos}})

\* \s+\s+
Ws2(s, pos) ==
    The({IF p = 0 \/ SpaceRunLen(s, p) < 2 THEN 0 ELSE p + SpaceRunLen(s, p) :
         p \in {pos}})

\* \s*[:\-\s]*
Sep0(s, pos) == The({IF p = 0 THEN 0 ELSE p + SepRunLen(s, p) : p \in {pos}})

\* (?:w1|w2|...), ignoring case; no word of words starts another.
OneOf(s, pos, words) ==
    The({IF p = 0 \/ ~\E k \in 1..Len(words) : StartsWithAt(s, p, words[k]) THEN 0
         ELSE p + Len(words[CHOOSE k \in 1..Len(words) : StartsWithAt(s, p, words[k])]) :
         p \in {pos}})

\* (?:INR|Rs\.?): the first currency word, in the order of the alternation.
CurrencyEnd(s, pos) ==
    The({IF p = 0 \/ ~\E k \in 1..Len(CurrencyWords(TRUE)) :
                         StartsWithAt(s, p, CurrencyWords(TRUE)[k])
         THEN 0
         ELSE p + Len(CurrencyWords(TRUE)[
                        FirstPos({k \in 1..Len(CurrencyWords(TRUE)) :
                                     StartsWithAt(s, p, CurrencyWords(TRUE)[k])})]) :
         p \in {pos}})

\* ([0-9,]+(?:\.[0-9]+)?)
AmountEnd(s, pos) ==
    The({IF p = 0 \/ InrGroupLenAt(s, p) = 0 THEN 0 ELSE p + InrGroupLenAt(s, p) :
         p \in {pos}})

\* (\d{1,2}:\d{2}\s*(?:AM|PM))
TimeEnd(s, pos) ==
    The({IF p = 0 \/ TimeLenAt(s, p) = 0 THEN 0 ELSE p + TimeLenAt(s, p) :
         p \in {pos}})

\* ([A-Za-z0-9]+)
AlnumEnd(s, pos) ==
    The({IF p = 0 \/ AlnumRunLen(s, p) = 0 THEN 0 ELSE p + AlnumRunLen(s, p) :
         p \in {pos}})

\* \.?
Dot0(s, pos) ==
    The({IF p = 0 THEN 0
         ELSE IF p <= Len(s) /\ s[p] = "." THEN p + 1 ELSE p :
         p \in {pos}})

\* Length of the run of [A-Za-z0-9\s&] that starts at pos.
RECURSIVE NameRunLen(_, _)
NameRunLen(s, pos) ==
    IF pos <= Len(s) /\ (IsAlnum(s[pos]) \/ IsSpace(s[pos]) \/ s[pos] = "&")
    THEN 1 + NameRunLen(s, pos + 1) ELSE 0

\* The lookahead (?=(?:[A-Za-z]{3} \d{2}, \d{4}|Page|\Z)) holds at pos.
RecordStopAt(s, pos) ==
    \/ pos = Len(s) + 1
    \/ StartsWithAt(s, pos, <<"P","a","g","e">>)
    \/ /\ pos + 11 <= Len(s)
       /\ \A i \in 0..2 : IsLetter(s[pos + i])
       /\ s[pos + 3] = " "
       /\ IsDigit(s[pos + 4]) /\ IsDigit(s[pos + 5])
       /\ s[pos + 6] = "," /\ s[pos + 7] = " "
       /\ \A i \in 8..11 : IsDigit(s[pos + i])

\* The date that opens a record and what follows it up to the name:
\* date \s+ (?:Paid|Add)\s*(?:to|money)\s*[:\-\s]* ; the position of the name.
NameStart(s, pos) ==
    IF DateLenAt(s, pos) = 0 THEN 0
    ELSE Sep0(s, OneOf(s, Ws0(s, OneOf(s, Ws1(s, pos + DateLenAt(s, pos)),
                                       << <<"P","a","i","d">>, <<"A","d","d">> >>)),
                       << <<"t","o">>, <<"m","o","n","e","y">> >>))

\* Where the pieces after the name start, when the name ends before pos.
TypeStart(s, pos) == Ws1(s, pos)
TypeEnd(s, pos) == OneOf(s, TypeStart(s, pos), <<Upper(KwDebit), Upper(KwCredit)>>)
AmountStart(s, pos) == Ws0(s, CurrencyEnd(s, Ws2(s, TypeEnd(s, pos))))
TimeStart(s, pos) == Ws1(s, AmountEnd(s, AmountStart(s, pos)))
TxnIdStart(s, pos) ==
    Sep0(s, OneOf(s, Ws0(s, OneOf(s, Ws1(s, TimeEnd(s, TimeStart(s, pos))),
                                  <<WordTransaction>>)),
                  << <<"I","D">> >>))
UtrStart(s, pos) ==
    Sep0(s, Dot0(s, OneOf(s, Ws0(s, OneOf(s, Ws1(s, AlnumEnd(s, TxnIdStart(s, pos))),
                                          <<KwUtr>>)),
                          << <<"N","o">> >>)))
PaidByStart(s, pos) ==
    Ws1(s, OneOf(s, Ws0(s, OneOf(s, Ws1(s, AlnumEnd(s, UtrStart(s, pos))),
                                 << <<"P","a","i","d">>,
                                    <<"D","e","b","i","t","e","d">>,
                                    <<"C","r","e","d","i","t","e","d">> >>)),
                 << <<"b","y">>, <<"f","r","o","m">>, <<"t","o">> >>))

\* (.+?)\s+(?=...) with the group ending before y: the positions after the
\* white space at which the lookahead holds.
StopsAfter(s, y) == {z \in (y + 1)..(y + SpaceRunLen(s, y)) : RecordStopAt(s, z)}

\* The ends of the lazy group (.+?) that starts at x.
PaidByEnds(s, x) ==
    The({IF p = 0 THEN {} ELSE {y \in (p + 1)..Len(s) : StopsAfter(s, y) # {}} :
         p \in {x}})

\* The ends of the greedy name group that starts at q, for which the rest of
\* the expression matches.
NameEnds(s, q) ==
    The({IF p = 0 THEN {}
         ELSE {e \in (p + 1)..(p + NameRunLen(s, p)) :
                  PaidByEnds(s, PaidByStart(s, e)) # {}} :
         p \in {q}})


Piece(s, from, to) == The({SubSeq(s, a, b - 1) : a \in {from}, b \in {to}})

\* The match that starts at pos: its groups and the position after it; the
\* name group is greedy and the last group lazy.
MatchAt(s, pos) ==
    The({The({The({The({
        [date     |-> Piece(s, pos, pos + DateLenAt(s, pos)),
         name     |-> Piece(s, q, e),
         type     |-> Piece(s, TypeStart(s, e), TypeEnd(s, e)),
         amount   |-> Piece(s, AmountStart(s, e), AmountEnd(s, AmountStart(s, e))),
         time     |-> Piece(s, TimeStart(s, e), TimeEnd(s, TimeStart(s, e))),
         txn_id   |-> Piece(s, TxnIdStart(s, e), AlnumEnd(s, TxnIdStart(s, e))),
         utr      |-> Piece(s, UtrStart(s, e), AlnumEnd(s, UtrStart(s, e))),
         paid_by  |-> Piece(s, x, y),
         end      |-> Largest(StopsAfter(s, y))] :
        y \in {FirstPos(PaidByEnds(s, x))}}) :
        x \in {PaidByStart(s, e)}}) :
        e \in {Largest(NameEnds(s, q))}}) :
        q \in {NameStart(s, pos)}})

MatchesAt(s, pos) == NameEnds(s, NameStart(s, pos)) # {}

\* pattern.findall(text) from pos on
RECURSIVE FindAll(_, _)
FindAll(s, pos) ==
    The({IF at = 0 THEN <<>>
         ELSE The({<<m>> \o FindAll(s, m.end) : m \in {MatchAt(s, at)}}) :
         at \in {FirstPos({p \in pos..Len(s) : MatchesAt(s, p)})}})

\* The record parse_text_for_records makes of a match.
RecordOfMatch(m, pad) ==
    The({[date |-> date_norm,
          time |-> time_norm,
          created_at |-> created_at_of(date_norm, time_norm, pad),
          name |-> IF Strip(m.name) = <<>> THEN TextPhonePe ELSE Strip(m.name),
          transaction_id |-> Strip(m.txn_id),
          utr_no |-> Strip(m.utr),
          type |-> Strip(m.type),
          amount |-> Strip(m.amount),
          paid_by |-> Strip(m.paid_by)] :
         date_norm \in {normalize_date(Strip(m.date), pad)},
         time_norm \in {normalize_time(Strip(m.time))}})

parse_text_for_records(lines, pad) ==
    The({[k \in 1..Len(matches) |-> RecordOfMatch(matches[k], pad)] :
         matches \in {The({FindAll(text, 1) : text \in {JoinNL(lines)}})}})

\* parse_txt_file of phonepe_expense_update.py, on the lines of the file
parse_txt_file(lines, pad) == parse_text_for_records(lines, pad)

\* ------------------------- parse_pdf2txt_lines of phonepe_pdf2txt_parser_v2.py
\* First position from j on of a line that is not blank; Len(lines) + 1 when
\* there is none.
RECURSIVE SkipBlank(_, _)
SkipBlank(lines, j) ==
    IF j <= Len(lines) /\ Strip(lines[j]) = <<>> THEN SkipBlank(lines, j + 1) ELSE j

\* First position from j on of a line in which a date is found; Len(lines) + 1
\* when there is none.
RECURSIVE NextDateLine(_, _)
NextDateLine(lines, j) ==
    IF j <= Len(lines) /\ DateFindFrom(lines[j], 1) = 0
    THEN NextDateLine(lines, j + 1) ELSE j

TextDateTransactionDetails ==
    <<"D","a","t","e"," ","T","r","a","n","s","a","c","t","i","o","n"," ",
      "D","e","t","a","i","l","s">>

\* The record made of the date line at position i; the keys "Paid to",
\* "Transaction ID", "UTR No" and "Debit/Credit" are written with _ .
V2Record(lines, i, pad) ==
    The({The({The({The({The({
        LET m_paid  == PayeeSearch(block_text, 1)
            paid_to == IF m_paid.ok THEN RStripComma(Strip(m_paid.text))
                       ELSE StripPunct(Strip(SplitHead(block_text, 1)))
            dtype   == IF WordSearch(block_text, KwDebit) THEN KwDebit
                       ELSE IF WordSearch(block_text, KwCredit) THEN KwCredit
                       ELSE <<>>
        IN  [next |-> j2,
             keep |-> ~Contains(paid_to, TextDateTransactionDetails),
             rec  |-> [Date |-> date_norm,
                       Time |-> time_norm,
                       created_at |-> created_at_of(date_norm, time_norm, pad),
                       Paid_to |-> paid_to,
                       Transaction_ID |-> TxnIdSearch(block_text, 1),
                       UTR_No |-> UtrSearch(block_text, 1, FALSE),
                       Debit_Credit |-> dtype,
                       Amount |-> IF amount = <<>> THEN <<>>
                                  ELSE IF dtype = KwDebit
                                  THEN <<"-">> \o Fixed2(amount)
                                  ELSE Fixed2(amount)]] :
        amount \in {The({DropCommas(IF m_inr # <<>> THEN m_inr
                                     ELSE LastAmount(block_text, 1, <<>>)) :
                          m_inr \in {InrSearch(block_text, 1, FALSE)}})}}) :
        block_text \in {JoinLines(lines, Range(j1, j2 - 1), 1)}}) :
        j2 \in {NextDateLine(lines, j1)}}) :
        j1 \in {IF mt # <<>> THEN j0 + 1 ELSE j0},
        time_norm \in {normalize_time(mt)}}) :
        j0 \in {SkipBlank(lines, i + 1)},
        mt \in {The({IF j <= Len(lines) THEN TimeToken(Strip(lines[j])) ELSE <<>> :
                     j \in {SkipBlank(lines, i + 1)}})},
        date_norm \in {normalize_date(DateToken(Strip(lines[i])), pad)}})

\* The loop of parse_pdf2txt_lines, from line i on.
RECURSIVE V2From(_, _, _)
V2From(lines, i, pad) ==
    IF i > Len(lines) THEN <<>>
    ELSE IF DateFindFrom(Strip(lines[i]), 1) = 0 THEN V2From(lines, i + 1, pad)
    ELSE The({(IF r.keep THEN <<r.rec>> ELSE <<>>) \o
                  The({V2From(lines, j, pad) : j \in {r.next}}) :
              r \in {V2Record(lines, i, pad)}})

v2_parse_pdf2txt_lines(lines, pad) == V2From(lines, 1, pad)

\* parse_txt_file of phonepe_pdf2txt_parser_v2.py, on the lines of the file
v2_parse_txt_file(lines, pad) == v2_parse_pdf2txt_lines(lines, pad)

\* ------------------------------------------------- the parsers, applied
\* The lines of statement texts: two dated blocks in the layouts the parsers
\* read, with or without the page header before them and a date-range line
\* or nothing between them.
LineDate1 ==
    <<"O","c","t"," ","2","8",","," ","2","0","2","5">>

LineDate2 ==
    <<"O","c","t"," ","2","9",","," ","2","0","2","5">>

\* A date line that names no day of the calendar.
LineDate30Feb ==
    <<"F","e","b"," ","3","0",","," ","2","0","2","5">>

LineTime ==
    <<"0","6",":","3","9"," ","P","M">>

LineTxnId ==
    <<"T","r","a","n","s","a","c","t","i","o","n"," ","I","D",":"," ","T","1",
      "2","3">>

LineUtr ==
    <<"U","T","R"," ","N","o",":"," ","4","5","6">>

LineDebit ==
    <<"D","e","b","i","t">>

LineDebitUpper ==
    <<"D","E","B","I","T">>

LinePaidBy ==
    <<"P","a","i","d"," ","b","y"," ","X","X","1","2">>

LineRange ==
    <<"O","c","t"," ","2","8",","," ","2","0","2","5"," ","-"," ","N","o","v",
      " ","2","7",","," ","2","0","2","5">>

LineStatement ==
    <<"T","r","a","n","s","a","c","t","i","o","n"," ","S","t","a","t","e","m",
      "e","n","t"," ","f","o","r"," ","9","8","7","6">>

LineDate ==
    <<"D","a","t","e">>

LineDetails ==
    <<"T","r","a","n","s","a","c","t","i","o","n"," ","D","e","t","a","i","l",
      "s">>

TextPaidTo ==
    <<"P","a","i","d"," ","t","o"," ">>

TextInr ==
    <<"I","N","R"," ">>

TextAcme ==
    <<"A","C","M","E">>

TextTea ==
    <<"T","E","A"," ","&"," ","C","O">>

TextT123 ==
    <<"T","1","2","3">>

Text456 ==
    <<"4","5","6">>

Text250 ==
    <<"2","5","0",".","0","0">>

Text1250 ==
    <<"1",",","2","5","0">>

\* The layout of a block of the text pdf2txt writes: one field to a line.
LayoutA(date, payee, amount) ==
    <<date, LineTime, TextPaidTo \o payee, LineTxnId, LineUtr,
      TextInr \o amount, LineDebit>>

\* The layout the expression of parse_text_for_records reads.
LayoutB(date, payee, amount) ==
    <<date, TextPaidTo \o payee, LineDebitUpper, <<>>, TextInr \o amount,
      LineTime, LineTxnId, LineUtr, LinePaidBy>>

\* A block with no payee: the amount before the date on the first line.
LayoutNoPayee(date, amount) ==
    <<TextInr \o amount \o <<" ">> \o date, LineDebit>>

\* The first block: a payee and an amount in either layout, the block with
\* no payee, and the block under a date that is no date.
FirstBlocks ==
    { LayoutA(LineDate1, TextAcme, Text250), LayoutA(LineDate1, TextTea, Text1250),
      LayoutB(LineDate1, TextAcme, Text250), LayoutB(LineDate1, TextTea, Text1250),
      LayoutNoPayee(LineDate1, Text250), LayoutA(LineDate30Feb, TextAcme, Text250) }

PageHeaders == { <<>>, <<LineStatement, LineRange, LineDate, LineDetails>> }

Between == { <<>>, <<LineRange>> }

\* The second block: a lone date line, a whole block, or a block that the
\* header of the next page cuts short after three lines.
SecondBlocks ==
    { <<LineDate2>>, LayoutB(LineDate2, TextAcme, Text250) \o << <<>> >>,
      <<LineDate2, LineTime, TextPaidTo \o TextAcme, LineStatement>> }

StatementTexts ==
    {h \o b1 \o m \o b2 :
        h \in PageHeaders, b1 \in FirstBlocks, m \in Between, b2 \in SecondBlocks}

InitParse ==
    /\ PostingIdle
    /\ p_in \in StatementTexts
    /\ p_out = <<>>
    /\ p_from = <<>>
    /\ p_pc = "lines"
    /\ pad_year \in BOOLEAN

\* parse_txt_file of phonepe_expense_update.py
ParseTxtFile ==
    /\ p_pc = "lines"
    /\ p_out' = parse_txt_file(p_in, pad_year)
    /\ p_pc' = "parse_txt_file"
    /\ UNCHANGED <<p_in, p_from, pad_year>>
    /\ UNCHANGED vars

\* parse_pdf2txt_lines of phonepe_expense_update.py
ParsePdf2txtLines ==
    /\ p_pc = "lines"
    /\ p_out' = parse_pdf2txt_lines(p_in, pad_year)
    /\ p_from' = The({[k \in 1..Len(found) |-> found[k].block] :
                       found \in {ParsedBlocks(p_in, pad_year)}})
    /\ p_pc' = "parse_pdf2txt_lines"
    /\ UNCHANGED <<p_in, pad_year>>
    /\ UNCHANGED vars

\* parse_txt_file of phonepe_pdf2txt_parser_v2.py
V2ParseTxtFile ==
    /\ p_pc = "lines"
    /\ p_out' = v2_parse_txt_file(p_in, pad_year)
    /\ p_pc' = "v2_parse_txt_file"
    /\ UNCHANGED <<p_in, p_from, pad_year>>
    /\ UNCHANGED vars

NextParse == ParseTxtFile \/ ParsePdf2txtLines \/ V2ParseTxtFile

SpecParse == InitParse /\ [][NextParse]_<<vars, pvars>>

\* ------------------------------------------------------------ claim helpers
\* The record carries a transaction reference id or a UTR.
HasKey(r) == r.transaction_id # NULL \/ r.utr_no # NULL

\* insert_transactions drops the record at its date checks.
DroppedByDate(r) ==
    \/ r.date = "" \/ r.date = NULL
    \/ ~IsIsoDate(r.date)
    \/ (min_date # NULL /\ DateBefore(r.date, min_date))

\* The name contains a tracked account's display name, ignoring case.
NamesTrackedAccount(n) ==
    \E a \in 1..Len(Accounts) : Contains(Lower(n), Lower(Accounts[a].account_name))

\* paid_by is the number of a tracked account.
KnownPaidBy(p) == \E a \in 1..Len(Accounts) : Accounts[a].account_number = p

\* The self account the record is to be posted on: the account its paid_by
\* names, the configured default otherwise.
ResolvedSelf(r) ==
    IF KnownPaidBy(r.paid_by)
    THEN Accounts[CHOOSE a \in 1..Len(Accounts) :
                    Accounts[a].account_number = r.paid_by].id
    ELSE DEFAULT_SELF_ACCOUNT_ID

KindOf(t, e) == t.transactions[e.entryable_id].kind

\* t extends s: every row of s is a row of t, at its place.
Extends(t, s) ==
    /\ Len(t.transactions) >= Len(s.transactions)
    /\ SubSeq(t.transactions, 1, Len(s.transactions)) = s.transactions
    /\ Len(t.entries) >= Len(s.entries)
    /\ SubSeq(t.entries, 1, Len(s.entries)) = s.entries
    /\ Len(t.transfers) >= Len(s.transfers)
    /\ SubSeq(t.transfers, 1, Len(s.transfers)) = s.transfers

\* ---------------------------------------------------------------- claims
\* C1: with no store failure, a repeated run over the same list writes no
\* row while it handles a record that carries a transaction reference id or
\* a UTR, whether the record was posted as a transfer or as an expense.
C1_RerunAddsNothing ==
    [][ ( /\ run > 1
          /\ faults' = 0
          /\ pc \in {"record", "transfer", "expense"}
          /\ HasKey(records[idx]) )
        => (db' = db /\ tx' = tx) ]_vars

\* A second run has ended over a list of keyed records of which the first run
\* posted one as an expense and one as a transfer.
C1_Witness ==
    /\ run = 2 /\ pc = "done" /\ faults = 0 /\ ~dry_run
    /\ Len(records) >= 2
    /\ \A i \in 1..Len(records) : HasKey(records[i])
    /\ Len(db.transfers) >= 1
    /\ \E i \in 2..Len(db.transactions) : db.transactions[i].kind = "standard"

\* C2: every Transfer row has an outflow entry and an inflow entry, the
\* outflow amount is the negation of the inflow amount, and both are the
\* scale-4 value of a record's amount.
C2_TransferBalanced ==
    \A k \in 1..Len(tx.transfers) :
        LET outs == {i \in 1..Len(tx.entries) : tx.entries[i].entryable_id =
                        tx.transfers[k].outflow_transaction_id}
            ins  == {j \in 1..Len(tx.entries) : tx.entries[j].entryable_id =
                        tx.transfers[k].inflow_transaction_id}
        IN  /\ outs # {} /\ ins # {}
            /\ \A i \in outs, j \in ins :
                /\ tx.entries[i].amount = -tx.entries[j].amount
                /\ \E n \in 1..Len(records) :
                    /\ safe_decimal(records[n].amount).ok
                    /\ Abs(tx.entries[i].amount) = safe_decimal(records[n].amount).val
                    /\ Abs(tx.entries[j].amount) = safe_decimal(records[n].amount).val

\* The store holds a transfer of a debit record and one of a credit record,
\* with amounts other than zero.
C2_Witness ==
    /\ \E k \in 1..Len(db.transfers) : \E i \in 1..Len(db.entries) :
        /\ db.entries[i].entryable_id = db.transfers[k].outflow_transaction_id
        /\ db.entries[i].amount > 0
    /\ \E k \in 1..Len(db.transfers) : \E i \in 1..Len(db.entries) :
        /\ db.entries[i].entryable_id = db.transfers[k].outflow_transaction_id
        /\ db.entries[i].amount < 0

\* C3 (as claimed): with no store failure, no record whose payee contains a
\* tracked account's display name is posted as a standalone expense.
C3_Claim ==
    faults = 0 =>
        \A i \in 1..Len(tx.entries) :
            KindOf(tx, tx.entries[i]) = "standard"
                => ~NamesTrackedAccount(tx.entries[i].name)

\* C4 (as claimed): a one-record run, not dry, with no store failure, over a
\* record with a valid date and amount whose payee names no tracked account
\* ends with exactly one more transaction, of kind 'standard', exactly one
\* more entry, on the resolved self account, and no transfers row.
C4_Claim ==
    ( /\ Len(records) = 1 /\ run = 1 /\ pc = "done" /\ faults = 0 /\ ~dry_run
      /\ ~DroppedByDate(records[1])
      /\ safe_decimal(records[1].amount).ok
      /\ ~NamesTrackedAccount(records[1].name) )
    => /\ Len(db.transactions) = Len(SeedTables.transactions) + 1
       /\ db.transactions[Len(db.transactions)].kind = "standard"
       /\ Len(db.entries) = Len(SeedTables.entries) + 1
       /\ db.entries[Len(db.entries)].account_id = ResolvedSelf(records[1])
       /\ db.entries[Len(db.entries)].entryable_id = Len(db.transactions)
       /\ db.transfers = <<>>

\* C5: a perform_transfer that returns 'error' leaves the store as it found
\* it; one that returns 'created' has committed exactly its five rows: two
\* 'funds_movement' transactions, an entry on each, and the transfers row
\* that links the two.
C5_TransferNoneOrAll ==
    [][ pc = "transfer" =>
          /\ transfer_result'.status = "error" => (tx' = tx /\ db' = db)
          /\ transfer_result'.status = "created" =>
                LET nt == Len(tx.transactions)
                    ne == Len(tx.entries)
                    nf == Len(tx.transfers)
                IN  /\ db' = tx'
                    /\ Extends(tx', tx)
                    /\ Len(tx'.transactions) = nt + 2
                    /\ Len(tx'.entries) = ne + 2
                    /\ Len(tx'.transfers) = nf + 1
                    /\ tx'.transactions[nt + 1].kind = "funds_movement"
                    /\ tx'.transactions[nt + 2].kind = "funds_movement"
                    /\ tx'.entries[ne + 1].entryable_id = nt + 1
                    /\ tx'.entries[ne + 2].entryable_id = nt + 2
                    /\ tx'.transfers[nf + 1].outflow_transaction_id = nt + 1
                    /\ tx'.transfers[nf + 1].inflow_transaction_id = nt + 2 ]_vars

\* perform_transfer has returned 'error' after a statement of its atomic
\* unit raised.
C5_Witness ==
    /\ pc = "expense" /\ transfer_result.status = "error" /\ faults >= 1
    /\ tx = db

\* C6 (as claimed): a record that passes the date checks and whose paid_by
\* is absent or names no tracked account is given the default self account,
\* and the loop does not end on it unless it is the last record.
C6_Claim ==
    [][ ( /\ pc = "record"
          /\ ~DroppedByDate(records[idx])
          /\ ~KnownPaidBy(records[idx].paid_by)
          /\ faults' = faults )
        => /\ self_account'.id = DEFAULT_SELF_ACCOUNT_ID
           /\ pc' = "return" => idx' > Len(records) ]_vars

\* C7 (as claimed): whatever fails on a record, the loop does not end while
\* a later record of the list is still to be processed.
C7_Claim ==
    [][ (pc # "return" /\ pc' = "return") => idx' >= Len(records) ]_vars

\* C8 (as claimed): in dry-run mode no step of insert_transactions changes
\* the transactions, entries or transfers tables.
C8_Claim ==
    [][ dry_run => (db' = db /\ tx' = tx) ]_vars

\* C9 (as claimed): with no store failure, in a created Transfer between two
\* accounts, of an amount other than zero, the entry on the account that receives the funds is
\* negative and the entry on the account they leave is positive: for a debit
\* record the self account's entry is positive and the other negative, for a
\* credit record the self account's entry is negative and the other positive.
C9_Claim ==
    [][ (pc = "transfer" /\ transfer_result'.status = "created" /\ faults' = 0) =>
          LET credit == IsCredit(records[idx])
              new    == {tx'.entries[i] : i \in (Len(tx.entries) + 1)..Len(tx'.entries)}
              self   == {e \in new : e.account_id = self_account.id}
              other  == {e \in new : e.account_id # self_account.id}
          IN  (self # {} /\ other # {} /\ \A e \in new : e.amount # 0) =>
                /\ \A e \in self  : IF credit THEN e.amount < 0 ELSE e.amount > 0
                /\ \A e \in other : IF credit THEN e.amount > 0 ELSE e.amount < 0
      ]_vars

\* C10 (as claimed): with no store failure, the entry the expense path
\* writes, of an amount other than zero, is positive for a debit record and negative for a credit record.
C10_Claim ==
    [][ (pc = "expense" /\ inserted' = inserted + 1 /\ faults' = 0) =>
          LET e == tx'.entries[Len(tx'.entries)]
          IN  e.amount # 0 =>
                IF IsCredit(records[idx]) THEN e.amount < 0 ELSE e.amount > 0
      ]_vars

\* C11: when txn_exists runs on a connection whose transaction is aborted, or
\* its query raises, the step leaves the connection out of the aborted state
\* with the store as committed, does not end the loop, and treats the record
\* as not existing: a record with a parsed amount goes on to perform_transfer.
C11_ExistsCheckRecovers ==
    [][ ( /\ pc = "record"
          /\ ~DroppedByDate(records[idx])
          \* the self-account lookup did not end the loop: txn_exists is called
          /\ ~(pc' = "return" /\ idx' = idx)
          /\ (conn_failed \/ faults' > faults) )
        => /\ conn_failed' = FALSE
           /\ db' = db /\ tx' = db
           /\ IF safe_decimal(records[idx].amount).ok
              THEN pc' = "transfer" /\ idx' = idx
              ELSE idx' = idx + 1 ]_vars

\* The existence query of the first record raised and the record has gone
\* on to perform_transfer on a usable connection.
C11_Witness ==
    /\ run = 1 /\ idx = 1 /\ pc = "transfer" /\ faults = 1 /\ ~conn_failed

\* txn_exists is about to run on a connection left aborted by an earlier
\* record's account lookup.
C11_WitnessAborted ==
    /\ pc = "record" /\ conn_failed /\ idx > 1
    /\ ~DroppedByDate(records[idx]) /\ ~Truthy(records[idx].paid_by)

\* C12 (as claimed): with no store failure, the outflow entry and the inflow
\* entry of every Transfer row are on two distinct accounts.
C12_Claim ==
    faults = 0 =>
        \A k \in 1..Len(tx.transfers) :
            \A i \in 1..Len(tx.entries), j \in 1..Len(tx.entries) :
                ( /\ tx.entries[i].entryable_id = tx.transfers[k].outflow_transaction_id
                  /\ tx.entries[j].entryable_id = tx.transfers[k].inflow_transaction_id )
                => tx.entries[i].account_id # tx.entries[j].account_id

\* C13: the expense step commits either nothing or exactly one 'standard'
\* transaction together with exactly one entry that refers to it, and leaves
\* no uncommitted row behind; it counts the record only in the second case.
C13_ExpenseNoneOrBoth ==
    [][ pc = "expense" =>
          /\ tx' = db'
          /\ \/ db' = db /\ inserted' = inserted
             \/ LET nt == Len(db.transactions)
                    ne == Len(db.entries)
                IN  /\ Extends(db', db)
                    /\ Len(db'.transactions) = nt + 1
                    /\ Len(db'.entries) = ne + 1
                    /\ db'.transfers = db.transfers
                    /\ db'.transactions[nt + 1].kind = "standard"
                    /\ db'.entries[ne + 1].entryable_id = nt + 1
                    /\ inserted' = inserted + 1 ]_vars

\* A one-record run has ended with nothing written and nothing counted after
\* an INSERT or the commit of the record's expense write raised.
C13_Witness ==
    /\ run = 1 /\ pc = "return" /\ ~dry_run /\ faults = 1
    /\ Len(records) = 1 /\ idx = 2
    /\ ~DroppedByDate(records[1]) /\ safe_decimal(records[1].amount).ok
    /\ ~Truthy(records[1].paid_by)
    /\ ~NamesTrackedAccount(records[1].name)
    /\ ~HasKey(records[1])
    /\ inserted = 0 /\ db = SeedTables /\ tx = db /\ ~conn_failed

\* C14: no step of a run removes or changes a committed row of transactions,
\* entries or transfers: the committed tables after the step extend the
\* committed tables before it, and so do the tables the connection sees.
C14_InsertOnly ==
    [][ Extends(db', db) /\ Extends(tx', db) ]_vars

\* A run in which a statement raised has ended with a transfer and an
\* expense committed on top of the rows the store held before.
C14_Witness ==
    /\ run = 1 /\ pc = "done" /\ faults = 1
    /\ Len(db.transfers) = 1
    /\ Len(db.transactions) = Len(SeedTables.transactions) + 3
    /\ Len(db.entries) = Len(SeedTables.entries) + 3
    /\ Extends(db, SeedTables)

\* C15 (as claimed): when the first run returns, the counter it returns is the
\* number of records the run posted: the transfers it created plus the
\* standalone expenses it wrote.
C15_Claim ==
    (run = 1 /\ pc = "done") =>
        LET transfers == Len(db.transfers) - Len(SeedTables.transfers)
            expenses  == Cardinality(
                {i \in (Len(SeedTables.transactions) + 1)..Len(db.transactions) :
                    db.transactions[i].kind = "standard"})
        IN  inserted = transfers + expenses

\* The record's date is missing or is not a YYYY-MM-DD date, or its amount
\* cannot be parsed.
Unparsed(r) ==
    \/ r.date = "" \/ r.date = NULL \/ ~IsIsoDate(r.date)
    \/ ~safe_decimal(r.amount).ok

\* C16 (as claimed): with no store failure, the step that handles a record
\* with a missing or invalid date or an unparsed amount changes no table, does not hand the record to
\* perform_transfer or to the expense path, and when a record follows, the
\* loop goes on to it.
C16_Claim ==
    [][ (pc = "record" /\ Unparsed(records[idx]) /\ faults' = 0) =>
          /\ db' = db /\ tx' = tx
          /\ pc' \notin {"transfer", "expense"}
          /\ idx < Len(records) => (pc' = "record" /\ idx' = idx + 1) ]_vars

\* The same for a record whose paid_by is absent or names a tracked account.
C16_KnownSelf ==
    [][ ( /\ pc = "record" /\ Unparsed(records[idx])
          /\ (~Truthy(records[idx].paid_by) \/ KnownPaidBy(records[idx].paid_by))
          /\ faults' = faults ) =>
          /\ db' = db /\ tx' = tx
          /\ pc' \notin {"transfer", "expense"}
          /\ idx < Len(records) => (pc' = "record" /\ idx' = idx + 1) ]_vars

\* The step adds a 'standard' transaction to the tables the connection sees,
\* or a row to the dry-run rows.
WritesExpense ==
    \/ \E i \in (Len(tx.transactions) + 1)..Len(tx'.transactions) :
          tx'.transactions[i].kind = "standard"
    \/ Len(dry_rows') > Len(dry_rows)

\* C20: perform_transfer returns one of created, exists, skip, error; after
\* created or exists the loop goes on to the next record and no expense is
\* written for the record; an expense is written (or, in a dry run, collected)
\* only by the step that follows a skip or an error, for that same record.
C20_ExpenseOnlyAfterSkipOrError ==
    [][ /\ pc = "transfer" =>
              /\ transfer_result'.status \in {"created", "exists", "skip", "error"}
              /\ ~WritesExpense
              /\ transfer_result'.status \in {"created", "exists"}
                    => (idx' = idx + 1 /\ pc' # "expense")
              /\ transfer_result'.status \in {"skip", "error"}
                    => (idx' = idx /\ pc' = "expense")
        /\ WritesExpense =>
              /\ pc = "expense"
              /\ transfer_result.status \in {"skip", "error"} ]_vars

\* A one-record run has written the record as an expense after
\* perform_transfer returned 'error' for it.
C20_Witness ==
    /\ run = 1 /\ pc = "return" /\ Len(records) = 1 /\ ~dry_run
    /\ transfer_result.status = "error" /\ inserted = 1
    /\ Len(db.transactions) = Len(SeedTables.transactions) + 1
    /\ db.transactions[Len(db.transactions)].kind = "standard"

\* The ISO text of a calendar date.
IsoOf(y, m, d) == Dec(y, 4) \o <<"-">> \o Dec(m, 2) \o <<"-">> \o Dec(d, 2)

\* The calendar dates a written date may stand for: the year as written, or
\* that year of this century when it is written in two digits.
DatesOf(w) ==
    IF ValidYMD(w.y, w.m, w.d)
    THEN {IsoOf(w.y, w.m, w.d), IsoOf(w.y % 100, w.m, w.d),
          IsoOf(2000 + (w.y % 100), w.m, w.d)}
    ELSE {}

\* C17 (as claimed): normalize_date returns, for a valid calendar date in the
\* month-name, slash or dash day/month/year, or ISO layout, the ISO text of
\* that date, and applied to that result returns it unchanged.
C17_Claim ==
    ValidYMD(p_in.y, p_in.m, p_in.d) =>
        /\ Len(p_out) >= 1 => p_out[1] \in DatesOf(p_in)
        /\ Len(p_out) >= 2 => p_out[2] = p_out[1]

\* The same for the dates whose year is written in four digits.
C17_FourDigitYear ==
    ( /\ ValidYMD(p_in.y, p_in.m, p_in.d)
      /\ Len(FindNums(p_in.text, 1)[Len(FindNums(p_in.text, 1))]) = 4
         \/ Len(FindNums(p_in.text, 1)[1]) = 4 ) =>
        /\ Len(p_out) >= 1 => p_out[1] = IsoOf(p_in.y, p_in.m, p_in.d)
        /\ Len(p_out) >= 2 => p_out[2] = p_out[1]

\* The positions of the date anchors of the lines that were parsed.
AnchorSet == {date_indices(p_in)[k] : k \in 1..Len(date_indices(p_in))}

\* C18: no record returned by parse_pdf2txt_lines comes from a block whose
\* text holds a statement date range such as "Oct 28, 2025 - Nov 27, 2025":
\* no date anchor is a date-range line, no block a returned record was parsed
\* from holds a date range, and no returned record bears a date range as its
\* name.
C18_NoRecordFromDateRange ==
    p_pc = "parse_pdf2txt_lines" =>
        /\ \A a \in AnchorSet : ~DateRangeSearch(Strip(p_in[a]))
        /\ \A k \in 1..Len(p_from) : ~DateRangeSearch(p_from[k])
        /\ \A k \in 1..Len(p_out) : ~DateRangeSearch(Strip(p_out[k].name))

\* The lines held a date range after a date anchor, so that a block holding
\* the range was parsed, and records were returned.
C18_Witness ==
    /\ p_pc = "parse_pdf2txt_lines"
    /\ Len(p_out) >= 1
    /\ \E i \in 1..Len(p_in) :
          /\ DateRangeSearch(Strip(p_in[i]))
          /\ \E a \in AnchorSet : a < i

\* The fields of a returned record under the names of the parser that made it.
PayeeOf(r) == IF p_pc = "v2_parse_txt_file" THEN r.Paid_to ELSE r.name
TxnIdOf(r) == IF p_pc = "v2_parse_txt_file" THEN r.Transaction_ID ELSE r.transaction_id
UtrOf(r) == IF p_pc = "v2_parse_txt_file" THEN r.UTR_No ELSE r.utr_no
DateOf(r) == IF p_pc = "v2_parse_txt_file" THEN r.Date ELSE r.date
DirectionOf(r) == Lower(IF p_pc = "v2_parse_txt_file" THEN r.Debit_Credit ELSE r.type)
AmountOf(r) == IF p_pc = "v2_parse_txt_file" THEN r.Amount ELSE r.amount

\* The amount of a record without its sign, to two decimals.
MagnitudeOf(r) ==
    IF AmountOf(r) = <<>> THEN <<>>
    ELSE IF Head(AmountOf(r)) = "-" THEN Fixed2(DropCommas(Tail(AmountOf(r))))
    ELSE Fixed2(DropCommas(AmountOf(r)))

\* The positions in the output of the records of the first block, the ones
\* dated Oct 28, 2025.
FirstBlockRecords ==
    {k \in 1..Len(p_out) : DateOf(p_out[k]) = normalize_date(LineDate1, pad_year)}

\* C19 (as claimed): when the lines begin with a date line, a time line, a
\* "Paid to P" line, a "Transaction ID: T123" line, a "UTR No: 456" line, an
\* "INR A" line and a "Debit" line, followed by the next date line, each
\* parsing entry point returns exactly one record for that first block, with
\* payee P, transaction id T123, reference 456, magnitude A and direction
\* debit.
C19_Claim ==
    \A payee \in {TextAcme, TextTea}, amount \in {Text250, Text1250} :
        ( /\ p_pc # "lines"
          /\ Len(p_in) >= 8
          /\ SubSeq(p_in, 1, 8) = LayoutA(LineDate1, payee, amount) \o <<LineDate2>> ) =>
            /\ Cardinality(FirstBlockRecords) = 1
            /\ \A k \in FirstBlockRecords :
                  /\ PayeeOf(p_out[k]) = payee
                  /\ TxnIdOf(p_out[k]) = TextT123
                  /\ UtrOf(p_out[k]) = Text456
                  /\ MagnitudeOf(p_out[k]) = Fixed2(DropCommas(amount))
                  /\ DirectionOf(p_out[k]) = Lower(KwDebit)

\* The same for parse_pdf2txt_lines of both files alone.
C19_LineParsers ==
    p_pc # "parse_txt_file" => C19_Claim

\* The Transfer rows of the store as the connection sees it whose outflow
\* transaction carries an entry with the record's transaction reference id
\* as its source.
TransfersOfRecord(r) ==
    {k \in 1..Len(tx.transfers) :
        /\ Truthy(r.transaction_id)
        /\ \E i \in 1..Len(tx.entries) :
              /\ tx.entries[i].source = r.transaction_id
              /\ tx.entries[i].entryable_id = tx.transfers[k].outflow_transaction_id}

StatedDirection(r) == Lower(Strip(r.type))

\* The ids of the accounts whose account_name the payee of r matches.
MatchedIds(r) ==
    {Accounts[i].id : i \in {j \in 1..Len(Accounts) :
        Like(Lower(Accounts[j].account_name), Lower(Strip(r.name)))}}

\* The accounts of the entries of table set t linked to transaction id.
AccountsOf(t, id) ==
    {t.entries[i].account_id : i \in {j \in 1..Len(t.entries) :
        t.entries[j].entryable_id = id}}

\* C22: in a Transfer that perform_transfer creates, the outflow entry is on
\* the self account and the inflow entry on the matched account when the
\* record is a debit, and the outflow entry is on the matched account and the
\* inflow entry on the self account when the record is a credit.
C22_SidesFollowDirection ==
    [][ ( /\ pc = "transfer"
          /\ transfer_result'.status = "created"
          /\ StatedDirection(records[idx]) \in {Lower(TextDebit), TextCredit} )
        => LET outs == AccountsOf(tx', transfer_result'.out_id)
               ins  == AccountsOf(tx', transfer_result'.in_id)
           IN  /\ Cardinality(outs) = 1 /\ Cardinality(ins) = 1
               /\ IF StatedDirection(records[idx]) = TextCredit
                  THEN outs \subseteq MatchedIds(records[idx]) /\ ins = {self_account.id}
                  ELSE outs = {self_account.id} /\ ins \subseteq MatchedIds(records[idx])
      ]_vars

\* The Transfer rows of table set t made for record r: their outflow entry
\* bears the transaction reference id of r as its source.
MadeFor(t, r) ==
    {k \in 1..Len(t.transfers) :
        \E i \in 1..Len(t.entries) :
            /\ t.entries[i].entryable_id = t.transfers[k].outflow_transaction_id
            /\ t.entries[i].source = r.transaction_id}

\* A Transfer has been created for a credit record and one for a debit
\* record, each with its two entries on different accounts.
C22_Witness ==
    /\ \E i \in 1..Len(records) :
          /\ StatedDirection(records[i]) = TextCredit
          /\ \E k \in MadeFor(db, records[i]) :
                /\ AccountsOf(db, db.transfers[k].outflow_transaction_id)
                      \subseteq MatchedIds(records[i])
                /\ AccountsOf(db, db.transfers[k].outflow_transaction_id) #
                   AccountsOf(db, db.transfers[k].inflow_transaction_id)
    /\ \E i \in 1..Len(records) :
          /\ StatedDirection(records[i]) = Lower(TextDebit)
          /\ \E k \in MadeFor(db, records[i]) :
                /\ AccountsOf(db, db.transfers[k].inflow_transaction_id)
                      \subseteq MatchedIds(records[i])
                /\ AccountsOf(db, db.transfers[k].outflow_transaction_id) #
                   AccountsOf(db, db.transfers[k].inflow_transaction_id)

\* The amounts of the entries of table set t linked to transaction id.
AmountsOf(t, id) ==
    {t.entries[i].amount : i \in {j \in 1..Len(t.entries) :
        t.entries[j].entryable_id = id}}

\* C30: perform_transfer treats a record that states no direction as it
\* treats a debit: whenever it creates a Transfer for a record that does not
\* state credit, the outflow entry is on the self account with the amount and
\* the inflow entry on the matched account with the negated amount; for a
\* record that states credit, in any letter case, the sides and signs swap.
C30_UnknownDirectionIsDebit ==
    [][ ( /\ pc = "transfer"
          /\ transfer_result'.status = "created" )
        => LET r    == records[idx]
               amt  == safe_decimal(r.amount).val
               outs == AccountsOf(tx', transfer_result'.out_id)
               ins  == AccountsOf(tx', transfer_result'.in_id)
               outa == AmountsOf(tx', transfer_result'.out_id)
               ina  == AmountsOf(tx', transfer_result'.in_id)
           IN  IF StatedDirection(r) = TextCredit
               THEN /\ outs \subseteq MatchedIds(r) /\ ins = {self_account.id}
                    /\ outa = {-amt} /\ ina = {amt}
               ELSE /\ outs = {self_account.id} /\ ins \subseteq MatchedIds(r)
                    /\ outa = {amt} /\ ina = {-amt}
      ]_vars

\* A Transfer has been created for a record that states no direction, with a
\* positive amount on its outflow entry.
C30_Witness ==
    \E i \in 1..Len(records) :
        /\ records[i].type = <<>>
        /\ \E k \in MadeFor(db, records[i]) :
              /\ \A a \in AmountsOf(db, db.transfers[k].outflow_transaction_id) : a > 0
              /\ \A a \in AmountsOf(db, db.transfers[k].inflow_transaction_id) : a < 0
              /\ AccountsOf(db, db.transfers[k].inflow_transaction_id)
                    \subseteq MatchedIds(records[i])

\* The step is one in which txn_exists answers for the record and the answer
\* alone decides where the loop goes: the record passes the date checks, its
\* paid_by is absent or names an account, its amount parses, the connection's
\* transaction is not aborted and no statement raises.
ExistsCheckDecides ==
    /\ pc = "record"
    /\ faults' = faults
    /\ ~conn_failed
    /\ ~DroppedByDate(records[idx])
    /\ (Truthy(records[idx].paid_by) => KnownPaidBy(records[idx].paid_by))
    /\ safe_decimal(records[idx].amount).ok

\* The primary key: an entry with that account, source and external id.
PrimaryKeyFound(r, account_id) ==
    \E i \in 1..Len(tx.entries) :
        /\ tx.entries[i].account_id = account_id
        /\ tx.entries[i].source = r.transaction_id
        /\ tx.entries[i].external_id = r.utr_no

\* The transaction reference id and the UTR the record carries.
KeysOf(r) == {r.transaction_id, r.utr_no} \ {NULL, ""}

\* C24 (as claimed): txn_exists answers by the primary key when the
\* self-account id, the transaction reference id and the UTR are all present,
\* and otherwise is true exactly when some stored entry, on any account, has
\* a source or an external id equal to the transaction reference id or to
\* the UTR.
C24_Claim ==
    [][ ExistsCheckDecides =>
          LET r == records[idx]
          IN  (pc' # "transfer") <=>
                IF Truthy(r.transaction_id) /\ Truthy(r.utr_no)
                THEN PrimaryKeyFound(r, ResolvedSelf(r))
                ELSE \E i \in 1..Len(tx.entries) :
                        \/ tx.entries[i].source \in KeysOf(r)
                        \/ tx.entries[i].external_id \in KeysOf(r)
      ]_vars

\* C24 (amended): txn_exists answers by the primary key when the
\* self-account id, the transaction reference id and the UTR are all present,
\* and otherwise is true exactly when some stored entry, on any account, has
\* a source equal to the transaction reference id or an external id equal to
\* the UTR.
C24_KeysPairwise ==
    [][ ExistsCheckDecides =>
          LET r == records[idx]
          IN  (pc' # "transfer") <=>
                IF Truthy(r.transaction_id) /\ Truthy(r.utr_no)
                THEN PrimaryKeyFound(r, ResolvedSelf(r))
                ELSE \E i \in 1..Len(tx.entries) :
                        \/ /\ Truthy(r.transaction_id)
                           /\ tx.entries[i].source = r.transaction_id
                        \/ /\ Truthy(r.utr_no)
                           /\ tx.entries[i].external_id = r.utr_no
      ]_vars

\* A second run has found, by its UTR alone, a record that carries no
\* transaction reference id, and by the primary key a record that carries
\* both.
C24_Witness ==
    /\ run = 2 /\ faults = 0 /\ ~dry_run /\ idx > 1 /\ pc \in {"record", "return"}
    /\ LET r == records[idx - 1]
       IN  /\ ~Truthy(r.transaction_id) /\ Truthy(r.utr_no)
           /\ ~DroppedByDate(r)
           /\ \E i \in 1..Len(tx.entries) : tx.entries[i].external_id = r.utr_no
           /\ Len(db.transactions) = 1 + Len(records)

\* The standalone expense entries table set t holds for record r: entries of
\* a 'standard' transaction on the record's self account that bear its
\* transaction reference id as source and its UTR as external id.
StandaloneOf(t, r) ==
    {i \in 1..Len(t.entries) :
        /\ KindOf(t, t.entries[i]) = "standard"
        /\ t.entries[i].account_id = ResolvedSelf(r)
        /\ t.entries[i].source = r.transaction_id
        /\ t.entries[i].external_id = r.utr_no}

\* The record has a transaction reference id or a UTR.
Keyed(r) == Truthy(r.transaction_id) \/ Truthy(r.utr_no)

\* C29: when perform_transfer has returned 'error' for a record that names a
\* tracked account and has a transaction reference id or a UTR, and the
\* fallback expense is committed, the store holds the record as a standalone
\* expense and no Transfer for it; and whenever the store holds such a
\* standalone expense for a record, the top of the loop of any run (its
\* lookups not raising) finds the record through txn_exists and goes on to the
\* next record without reaching perform_transfer and without writing, so no
\* Transfer is created for it.
C29_ErrorFallbackSticks ==
    [][ /\ ( ( /\ pc = "expense"
               /\ transfer_result.status = "error"
               /\ Keyed(records[idx])
               /\ db' # db )
             => ( /\ StandaloneOf(db', records[idx]) # {}
                  /\ db'.transfers = db.transfers ) )
        /\ ( ( /\ pc = "record"
               /\ faults' = faults
               /\ Keyed(records[idx])
               /\ MatchedIds(records[idx]) # {}
               /\ (Truthy(records[idx].paid_by) => KnownPaidBy(records[idx].paid_by))
               /\ StandaloneOf(db, records[idx]) # {} )
             => ( /\ pc' # "transfer"
                  /\ idx' = idx + 1
                  /\ db' = db /\ tx' = tx ) )
      ]_vars

\* A second run has passed over a record that names a tracked account and
\* that the first run, one of whose statements raised, left as a standalone
\* expense (the state after perform_transfer's 'error' and the committed
\* fallback): the second run has added nothing and the store holds no
\* Transfer.
C29_Witness ==
    /\ run = 2 /\ faults = 1 /\ ~dry_run
    /\ pc = "done"
    /\ Len(records) = 1
    /\ Keyed(records[1])
    /\ MatchedIds(records[1]) # {}
    /\ StandaloneOf(db, records[1]) # {}
    /\ Len(db.transfers) = 0
    /\ Len(db.entries) = Len(SeedTables.entries) + 1

\* C23 (as claimed): no record a parser returns has its created_at taken
\* from the wall clock; created_at is the time stamp that the date and time
\* of the record's text combine to.
C23_Claim ==
    p_pc # "lines" =>
        \A k \in 1..Len(p_out) : ~p_out[k].created_at.clock

\* The line at position i of the parsed lines holds a date and is not a
\* date-range line.
DateBearing(i) ==
    LET ln == Strip(p_in[i])
    IN  ln # <<>> /\ DateFindFrom(ln, 1) > 0 /\ ~DateRangeSearch(ln)

\* The positions from `back` lines before i to `ahead` lines after it.
Near(i, back, ahead) == {j \in 1..Len(p_in) : i - back <= j /\ j <= i + ahead}

\* The non-empty lines at the positions of S, stripped and joined by spaces.
RECURSIVE TextOf(_)
TextOf(S) ==
    IF S = {} THEN <<>>
    ELSE LET lo   == CHOOSE j \in S : \A q \in S : j <= q
             rest == TextOf(S \ {lo})
             ln   == Strip(p_in[lo])
         IN  IF ln = <<>> THEN rest
             ELSE IF rest = <<>> THEN ln
             ELSE ln \o <<" ">> \o rest

\* C25 (as claimed): a line holding a date that is not a date range is left
\* out of the date anchors whenever a page-header marker occurs in one of the
\* three lines before it, in the line itself or in one of the three lines
\* after it, and is a date anchor otherwise.
C25_Claim ==
    p_pc = "parse_pdf2txt_lines" =>
        \A i \in 1..Len(p_in) :
            DateBearing(i) =>
                ( i \notin AnchorSet <=>
                    \E j \in Near(i, 3, 3) : PageHeaderSearch(Strip(p_in[j])) )

\* C25 (amended): a line holding a date that is not a date range is left out
\* of the date anchors exactly when a page-header marker is found in the text
\* of the non-empty lines from three lines before it to two lines after it,
\* stripped and joined by single spaces: 'transaction statement for' or
\* 'transaction details' anywhere in that text, or 'date' at its end.
C25_ThreeBackTwoAhead ==
    p_pc = "parse_pdf2txt_lines" =>
        \A i \in 1..Len(p_in) :
            DateBearing(i) =>
                ( i \notin AnchorSet <=> PageHeaderSearch(TextOf(Near(i, 3, 2))) )

\* The lines hold a date line with a page-header marker three lines after it
\* and none nearer: the line is a date anchor, and so the block before it
\* ends there and its record is returned.
C25_Witness ==
    /\ p_pc = "parse_pdf2txt_lines"
    /\ \E i \in AnchorSet :
          /\ i + 3 <= Len(p_in)
          /\ PageHeaderSearch(Strip(p_in[i + 3]))
          /\ ~PageHeaderSearch(TextOf(Near(i, 3, 2)))
          /\ \E a \in AnchorSet : a < i
    /\ Len(p_out) >= 1

\* The payee of a block can be resolved: the 'Paid to' / 'Received from' /
\* 'Bill paid' pattern or the first segment of the split gives a name that is
\* not empty.
PayeeResolvable(text) ==
    \/ /\ PayeeSearch(text, 1).ok
       /\ RStripComma(Strip(PayeeSearch(text, 1).text)) # <<>>
    \/ StripPunct(Strip(SplitHead(text, 1))) # <<>>

\* C26 (as claimed): parse_pdf2txt_lines returns no record for a block whose
\* payee cannot be resolved or in which no date is found: every returned
\* record comes from a block with a resolvable payee and a date, and none
\* bears a placeholder in place of a payee its block does not give.
C26_Claim ==
    p_pc = "parse_pdf2txt_lines" =>
        \A k \in 1..Len(p_out) :
            /\ PayeeResolvable(p_from[k])
            /\ DateToken(p_from[k]) # <<>>

\* The text is a magnitude: digits, with thousands commas and a decimal point
\* at most, and no sign.
IsMagnitude(a) ==
    /\ a # <<>>
    /\ \A i \in 1..Len(a) : IsDigit(a[i]) \/ a[i] \in {".", ","}
    /\ \E i \in 1..Len(a) : IsDigit(a[i])

\* C27 (as claimed): every record a parser returns carries an amount that is
\* a magnitude without a sign, for debit and for credit blocks alike.
C27_Claim ==
    p_pc # "lines" =>
        \A k \in 1..Len(p_out) :
            DirectionOf(p_out[k]) \in {Lower(KwDebit), Lower(KwCredit)} =>
                IsMagnitude(AmountOf(p_out[k]))

\* The lines of the blocks of the initial pass: from each date anchor up to
\* the line before the next one, and from the last anchor to the last line.
ConsumedByInitialPass ==
    The({UNION { anchors[k]..(IF k + 1 <= Len(anchors) THEN anchors[k + 1] - 1
                              ELSE Len(p_in)) : k \in 1..Len(anchors) } :
         anchors \in {date_indices(p_in)}})

====
